---- MODULE Spec2Model ----
(***************************************************************************)
(* BuntzenLakeBot: the cron scheduler's one-at-a-time guard                *)
(* (scheduler.js), the booking workflow of one bot run (bot.js             *)
(* bookParkingPass and the stage methods it calls) and the OTP checkpoint  *)
(* wait loop of handleOTPVerification.                                     *)
(*                                                                         *)
(* A bot is a record; every stage method is an operator from the bot and   *)
(* what the page shows (the method's inputs) to the bot after the method.  *)
(* The trace field is a history of the operations a run has invoked.       *)
(***************************************************************************)
EXTENDS Integers, Sequences, FiniteSets, TLC

\* ---- bounds -------------------------------------------------------------
MaxTriggers == 2      \* cron callbacks fired on one BotScheduler
MaxInterval == 3      \* largest pollIntervalMs drawn in SpecWait
MaxTimeout == 7       \* largest timeoutMs drawn in SpecWait
MaxResolutions == 3   \* vehicle-resolution calls on one instance (SpecVehicle)
MaxVehicles == 2      \* longest list of vehicle entries (SpecVehicleList)
MaxCards == 2         \* longest list of pass cards (SpecPass)
MaxButtons == 2       \* most date buttons under .dateMain (SpecDate)
MaxRetries == 3       \* largest maxRetries passed to clickElement (SpecClick)
MaxElements == 2      \* most elements a page-wide scan returns (SpecLocate)
MaxApiCalls == 3      \* scheduleJob/stopJob/stopAllJobs calls on one BotScheduler

\* ---- program constants --------------------------------------------------
maxWaitTime == 300000
checkInterval == 2000
Jobs == {"morning_booking", "backup_booking", "evening_check"}

VARIABLES
  isRunning,   \* BotScheduler.isRunning
  calls,       \* the runScheduledJob invocations so far: [job, status]
  bots,        \* bots[n]: the BuntzenLakeBot created by invocation n
  waiter,      \* a checkpoint wait on its own (SpecWait)
  vbot,        \* one bot under repeated vehicle resolution (SpecVehicle)
  vlist,       \* one existing-vehicle selection over a list (SpecVehicleList)
  cards,       \* one selectPassType call over a card list (SpecPass)
  picker,      \* one selectDateFromNewPicker call over a picker (SpecDate)
  clicker,     \* one clickElement call (SpecClick)
  locator,     \* one resolution of a target through its strategies (SpecLocate)
  shooter,     \* one stage with a screenshot in it (SpecShot)
  registry     \* BotScheduler.scheduledJobs under its three methods (SpecJobs)

units == <<vbot, vlist, cards, picker, clicker, locator, shooter, registry>>
vars == <<isRunning, calls, bots, waiter, vbot, vlist, cards, picker, clicker, locator, shooter, registry>>

\* ---- the OTP checkpoint wait loop (bot.js 1130-1166) ---------------------
\* clearedAt = t stands for the instant just after t ms of the wait
\* (t = -1: before the wait began).
NewWait(interval, timeout) ==
  [pc |-> "idle", waitedTime |-> 0, checkInterval |-> interval,
   maxWaitTime |-> timeout, cleared |-> FALSE, clearedAt |-> 0,
   outcome |-> "none", polls |-> 0]

IdleWait == NewWait(checkInterval, maxWaitTime)

loopTest_le(w) == w.waitedTime <= w.maxWaitTime
\* while (waitedTime < maxWaitTime)
loopTest(w) == w.waitedTime < w.maxWaitTime

\* if (waitedTime >= maxWaitTime) { logWarning("Timeout ...") }
afterLoop(w) ==
  [w EXCEPT !.pc = "ended",
            !.outcome = IF w.waitedTime >= w.maxWaitTime
                        THEN "timedOut" ELSE "completed"]

\* let waitedTime = 0, then the first loop test
enterLoop(w) ==
  LET w0 == [w EXCEPT !.waitedTime = 0, !.polls = 0, !.outcome = "none"]
  IN IF loopTest(w0) THEN [w0 EXCEPT !.pc = "poll"] ELSE afterLoop(w0)

\* page.evaluate(...): is the OTP form still on the page at this poll?
otpStillVisible(w) == ~w.cleared \/ w.clearedAt >= w.waitedTime

\* one evaluation of the pending condition; break when it is false
pollStep(w) ==
  LET w1 == [w EXCEPT !.polls = @ + 1]
  IN IF otpStillVisible(w) THEN [w1 EXCEPT !.pc = "delay"] ELSE afterLoop(w1)

delayStep_testFirst(w) ==
  LET w1 == [w EXCEPT !.waitedTime = @ + w.checkInterval]
  IN IF loopTest(w) THEN [w1 EXCEPT !.pc = "poll"] ELSE afterLoop(w1)
\* await delay(checkInterval); waitedTime += checkInterval; loop test
delayStep(w) ==
  LET w1 == [w EXCEPT !.waitedTime = @ + w.checkInterval]
  IN IF loopTest(w1) THEN [w1 EXCEPT !.pc = "poll"] ELSE afterLoop(w1)

\* the human enters the code: the OTP inputs leave the page at instant t
userEntersOTP(w, t) == [w EXCEPT !.cleared = TRUE, !.clearedAt = t]

\* instants at which the human may act, given where the loop is
Instants(w) ==
  IF w.pc = "delay"
  THEN {w.waitedTime, w.waitedTime + w.checkInterval - 1}
  ELSE IF w.pc = "poll" /\ w.waitedTime = 0 THEN {-1} ELSE {}

\* ---- one BuntzenLakeBot (bot.js) -----------------------------------------
\* constructor (bot.js 11-16); pc "none": no bot exists for this invocation
NoBot ==
  [pc |-> "none", browser |-> "none", page |-> FALSE, isLoggedIn |-> FALSE,
   vehicleAdded |-> FALSE, branch |-> "none", result |-> "none",
   wait |-> IdleWait, trace |-> <<>>]

NewBot_registered == [NoBot EXCEPT !.pc = "initialize", !.vehicleAdded = TRUE]
\* new BuntzenLakeBot(): isLoggedIn and vehicleAdded are false
NewBot == [NoBot EXCEPT !.pc = "initialize"]

Log(b, e) == [b EXCEPT !.trace = Append(@, e)]
At(b, p) == [b EXCEPT !.pc = p]

\* positions inside the try block around handleLogin / handlePostLoginFlow
InnerTry ==
  {"handleLogin", "otp_find", "otp_wait", "otp_submit",
   "pl_probe", "pl_vehicle", "pl_date", "pl_cart"}

Throw_swallowed(b, e) ==
  [b EXCEPT !.trace = Append(@, e), !.wait = IdleWait,
            !.pc = IF b.pc = "si_vehicle" THEN "si_date"
                   ELSE IF b.pc \in InnerTry THEN "catch_login" ELSE "catch"]
\* a stage method's catch block: logError, throw error.  The error reaches
\* the catch of bookParkingPass, through the inner catch when thrown by
\* handleLogin or handlePostLoginFlow.
Throw(b, e) ==
  [b EXCEPT !.trace = Append(@, e), !.wait = IdleWait,
            !.pc = IF b.pc \in InnerTry THEN "catch_login" ELSE "catch"]

takeScreenshot_throws(shotOk) == IF shotOk THEN "saved" ELSE "thrown"
\* utils.takeScreenshot: the file path, or null when page.screenshot failed
takeScreenshot(shotOk) == IF shotOk THEN "saved" ELSE "null"

\* try { await this.page.screenshot(...) } catch { logWarning } (bot.js 358-368)
pageScreenshot(shotOk) == IF shotOk THEN "saved" ELSE "warned"

\* `await <screenshot>; <rest>`: a screenshot call that threw would end the
\* enclosing stage like any other error
Shot(b, shot, rest) == IF shot = "thrown" THEN Throw(b, "throw:screenshot") ELSE rest

initialize(b, launchOk, pageOk, setupOk) ==
  LET b0 == Log(b, "initialize")
      b1 == [b0 EXCEPT !.browser = "open"]
      b2 == [b1 EXCEPT !.page = TRUE]
  IN IF ~launchOk THEN Throw(b0, "throw:initialize")
     ELSE IF ~pageOk THEN Throw(b1, "throw:initialize")
     ELSE IF ~setupOk THEN Throw(b2, "throw:initialize")
     ELSE At(b2, "navigateToPortal")

navigateToPortal(b, gotoOk, shotOk) ==
  LET b0 == Log(b, "navigateToPortal")
  IN IF ~gotoOk THEN Throw(b0, "throw:navigate")
     ELSE Shot(b0, takeScreenshot(shotOk), At(b0, "handleInfoPopup"))

\* best-effort: every path returns true
handleInfoPopup(b, popupExists, buttonClicked, shotOk) ==
  LET b0 == Log(b, "handleInfoPopup")
  IN IF popupExists /\ takeScreenshot(shotOk) = "thrown"
       THEN At(b0, "selectPassType")
     ELSE At(IF popupExists /\ buttonClicked THEN Log(b0, "clickGoToPass")
                                              ELSE b0,
             "selectPassType")

selectPassType(b, cardsFound, cardClickOk) ==
  LET b0 == Log(b, "selectPassType")
  IN IF ~cardsFound THEN Throw(b0, "throw:noPassCards")
     ELSE IF ~cardClickOk THEN Throw(b0, "throw:passClick")
     ELSE At(Log(b0, "clickPassCard"), "probe")

bookingBranch_inverted(vehicleSelectExists) ==
  IF vehicleSelectExists THEN "guest" ELSE "signedIn"
\* if (vehicleSelectExists) handleSignedInBooking() else { guest flow }
bookingBranch(vehicleSelectExists) ==
  IF vehicleSelectExists THEN "signedIn" ELSE "guest"

probeSignedIn_setsFlag(b, vehicleSelectExists) ==
  LET b0 == Log(b, IF vehicleSelectExists THEN "probe:present"
                                          ELSE "probe:absent")
      br == bookingBranch(vehicleSelectExists)
  IN [b0 EXCEPT !.branch = br, !.isLoggedIn = vehicleSelectExists,
                !.pc = IF br = "signedIn" THEN "si_probe" ELSE "g_date"]
\* const vehicleSelectExists = await utils.elementExists(...) (bot.js 1765)
probeSignedIn(b, vehicleSelectExists) ==
  LET b0 == Log(b, IF vehicleSelectExists THEN "probe:present"
                                          ELSE "probe:absent")
      br == bookingBranch(vehicleSelectExists)
  IN [b0 EXCEPT !.branch = br,
                !.pc = IF br = "signedIn" THEN "si_probe" ELSE "g_date"]

handleSignedInBooking(b, vehicleSelectExists) ==
  At(Log(b, "handleSignedInBooking"),
     IF vehicleSelectExists THEN "si_vehicle" ELSE "si_date")

\* the five fillInput / selectOption calls of a vehicle form: each catches
\* its own error, logs it and returns false (scheduler.js 294-327); the
\* caller does not look at the value returned.  fieldsOk: all five succeed.
fillFields(b, fieldsOk) == IF fieldsOk THEN b ELSE Log(b, "fieldFailed")

fillVehicleForm(b, formVisible, fieldsOk, saveOk) ==
  LET b0 == Log(b, "fillVehicleForm")
      b1 == fillFields(b0, fieldsOk)
  IN IF ~formVisible THEN Throw(b0, "throw:vehicleForm")
     ELSE IF ~saveOk THEN Throw(b1, "throw:saveVehicle")
     ELSE [Log(b1, "saveVehicle") EXCEPT !.vehicleAdded = TRUE]

vehicleChoice_ignoresFlag(b, addOption, existing) ==
  IF addOption THEN "register"
  ELSE IF existing THEN "existing" ELSE "nothing"
\* what handleVehicleSelectionForSignedInUser does once the selector is open
vehicleChoice(b, addOption, existing) ==
  IF ~b.vehicleAdded /\ addOption THEN "register"
  ELSE IF existing THEN "existing" ELSE "nothing"

handleVehicleSelectionForSignedInUser(b, selectorOk, addOption, existing, optionClickOk, formVisible, fieldsOk, saveOk) ==
  LET b0 == Log(b, "handleVehicleSelectionForSignedInUser")
      ch == vehicleChoice(b, addOption, existing)
      fv == fillVehicleForm(b0, formVisible, fieldsOk, saveOk)
  IN IF ~selectorOk THEN Throw(b0, "throw:vehicleSelector")
     ELSE IF ch = "nothing" THEN At(b0, "si_date")
     ELSE IF ~optionClickOk THEN Throw(b0, "throw:vehicleOption")
     ELSE IF ch = "existing" THEN At(Log(b0, "selectExistingVehicle"), "si_date")
     ELSE IF fv.pc = b0.pc THEN At(fv, "si_date") ELSE fv

afterDate(pc) ==
  IF pc = "si_date" THEN "si_cart"
  ELSE IF pc = "g_date" THEN "g_cart" ELSE "pl_cart"

DateOutcomes == {"clicked", "alreadyActive", "noButtons", "clickThrows"}

selectDateFromNewPicker(b, pickerVisible, outcome, shotOk) ==
  LET b0 == Log(b, "selectDateFromNewPicker")
  IN IF ~pickerVisible THEN Throw(b0, "throw:datePicker")
     ELSE IF outcome = "clickThrows" THEN Throw(b0, "throw:dateClick")
     ELSE IF outcome = "clicked" THEN At(Log(b0, "clickDate"), afterDate(b.pc))
     ELSE IF outcome = "noButtons"
       THEN Shot(b0, pageScreenshot(shotOk), At(b0, afterDate(b.pc)))
     ELSE At(b0, afterDate(b.pc))

soldOutCheck_skipped(soldOutExists) == FALSE
\* if (soldOutExists) throw new Error("Pass is sold out ...")
soldOutCheck(soldOutExists) == soldOutExists

afterCart_relogin(pc) == "g_loginform"
\* what follows a successful addToCart at each of its three call sites
afterCart(pc) == IF pc = "g_cart" THEN "g_loginform" ELSE "completeCheckout"

addToCart(b, btnVisible, soldOutExists, clickOk) ==
  LET b0 == Log(b, "addToCart")
      b1 == IF soldOutExists THEN Log(b0, "soldOutSeen") ELSE b0
  IN IF ~btnVisible THEN Throw(b0, "throw:cartNotVisible")
     ELSE IF soldOutCheck(soldOutExists) THEN Throw(b1, "throw:soldOut")
     ELSE IF ~clickOk THEN Throw(b1, "throw:cartClick")
     ELSE At(Log(b1, "clickAddToCart"), afterCart(b.pc))

\* bookParkingPass 1785-1814
checkLoginForm_loginAnyway(b, loginFormVisible, shotOk) ==
  IF loginFormVisible THEN At(b, "handleLogin")
  ELSE At(Log(b, "screenshot:no_login_form"), "handleLogin")
checkLoginForm(b, loginFormVisible, shotOk) ==
  LET b0 == Log(b, "screenshot:no_login_form")
  IN IF loginFormVisible THEN At(b, "handleLogin")
     ELSE Shot(b0, takeScreenshot(shotOk), Throw(b0, "throw:noLoginForm"))

handleLogin_typesAnyway(b, phoneFound, typeOk, nextClicked, shotOk) ==
  LET b0 == Log(b, "handleLogin")
  IN IF takeScreenshot(shotOk) = "thrown" THEN Throw(b0, "throw:screenshot")
     ELSE IF ~phoneFound THEN Throw(Log(b0, "typePhone"), "throw:noPhoneInput")
     ELSE IF ~typeOk THEN Throw(b0, "throw:phoneType")
     ELSE IF ~nextClicked THEN Throw(Log(b0, "typePhone"), "throw:noNextButton")
     ELSE At(Log(Log(b0, "typePhone"), "clickNext"), "otp_find")
\* handleLogin up to the click on Next (bot.js 889-1035)
handleLogin(b, phoneFound, typeOk, nextClicked, shotOk) ==
  LET b0 == Log(b, "handleLogin")
  IN IF takeScreenshot(shotOk) = "thrown" THEN Throw(b0, "throw:screenshot")
     ELSE IF ~phoneFound THEN Throw(b0, "throw:noPhoneInput")
     ELSE IF ~typeOk THEN Throw(b0, "throw:phoneType")
     ELSE IF ~nextClicked THEN Throw(Log(b0, "typePhone"), "throw:noNextButton")
     ELSE At(Log(Log(b0, "typePhone"), "clickNext"), "otp_find")

\* handleOTPVerification up to the wait loop (bot.js 1052-1132)
otpFind(b, inputsFound, shotOk) ==
  LET b0 == Log(b, "handleOTPVerification")
  IN IF takeScreenshot(shotOk) = "thrown" THEN Throw(b0, "throw:screenshot")
     ELSE IF ~inputsFound THEN Throw(b0, "throw:noOtpInputs")
     ELSE [b0 EXCEPT !.pc = "otp_wait", !.wait = enterLoop(IdleWait)]

afterWait_throwOnTimeout(b) ==
  IF b.wait.outcome = "timedOut"
  THEN Throw(Log(b, "otpWait:timedOut"), "throw:otpTimeout")
  ELSE At(Log(b, "otpWait:completed"), "otp_submit")
\* the loop has ended: log a warning on timeout, go on to the submission
afterWait(b) ==
  At(Log(b, IF b.wait.outcome = "timedOut" THEN "otpWait:timedOut"
                                           ELSE "otpWait:completed"),
     "otp_submit")

\* one step of the wait loop inside a run
otpLoop(b, w) ==
  LET b0 == [b EXCEPT !.wait = w]
  IN IF w.pc = "ended" THEN afterWait(b0) ELSE b0

otpSubmit_flagFirst(b, submitted) ==
  LET b0 == [Log(b, "otpSubmit:attempt") EXCEPT !.isLoggedIn = TRUE]
  IN IF ~submitted THEN Throw(b0, "throw:otpSubmit")
     ELSE [Log(b0, "otpSubmit:clicked") EXCEPT !.wait = IdleWait,
                                               !.pc = "pl_probe"]
\* the submit selectors (bot.js 1168-1199), then handleLogin 1040-1042
otpSubmit(b, submitted) ==
  LET b0 == Log(b, "otpSubmit:attempt")
  IN IF ~submitted THEN Throw(b0, "throw:otpSubmit")
     ELSE [Log(b0, "otpSubmit:clicked") EXCEPT
             !.isLoggedIn = TRUE, !.wait = IdleWait, !.pc = "pl_probe"]

handlePostLoginFlow_skipsVehicle(b, vehicleSelectorExists, foundSelector, shotOk) ==
  LET b0 == Log(b, "handlePostLoginFlow")
      b1 == Log(b0, "screenshot:no_vehicle_selector_found")
  IN IF vehicleSelectorExists \/ foundSelector THEN At(b0, "pl_vehicle")
     ELSE At(b1, "pl_date")
handlePostLoginFlow(b, vehicleSelectorExists, foundSelector, shotOk) ==
  LET b0 == Log(b, "handlePostLoginFlow")
      b1 == Log(b0, "screenshot:no_vehicle_selector_found")
  IN IF takeScreenshot(shotOk) = "thrown" THEN Throw(b0, "throw:screenshot")
     ELSE IF vehicleSelectorExists \/ foundSelector THEN At(b0, "pl_vehicle")
     ELSE Throw(b1, "throw:postLogin")

handleDropdownVehicleSelection(b, linkPresent, popupOk, selected) ==
  LET b0 == Log(b, "handleDropdownVehicleSelection")
  IN IF ~linkPresent THEN Throw(b0, "throw:noSmartSelect")
     ELSE IF ~popupOk THEN Throw(b0, "throw:vehiclePopup")
     ELSE IF ~selected THEN Throw(b0, "throw:noVehicle")
     ELSE At(Log(b0, "selectDropdownVehicle"), "pl_date")

completeCheckout_unchecked(b, btnVisible, clickOk, shotOk) ==
  LET b0 == Log(b, "completeCheckout")
      b1 == IF btnVisible /\ clickOk THEN Log(b0, "clickCheckout") ELSE b0
  IN [b1 EXCEPT !.result = "success", !.pc = "cleanup"]
\* completeCheckout, then bookParkingPass returns true (finally runs next)
completeCheckout(b, btnVisible, clickOk, shotOk) ==
  LET b0 == Log(b, "completeCheckout")
      b1 == Log(b0, "clickCheckout")
  IN IF ~btnVisible THEN Throw(b0, "throw:checkoutNotVisible")
     ELSE IF ~clickOk THEN Throw(b0, "throw:checkoutClick")
     ELSE Shot(b1, takeScreenshot(shotOk),
               [b1 EXCEPT !.result = "success", !.pc = "cleanup"])

\* inner catch (bot.js 1803-1808): screenshot, rethrow
catchLogin(b, shotOk) ==
  LET b0 == Log(b, "screenshot:login_failed")
  IN Shot(b0, takeScreenshot(shotOk), At(b0, "catch"))

catchError_noScreenshot(b, shotOk) == [b EXCEPT !.result = "failure", !.pc = "cleanup"]
\* catch of bookParkingPass (bot.js 1822-1830)
catchError(b, shotOk) ==
  LET b0 == IF b.page THEN Log(b, "screenshot:error_state") ELSE b
      b1 == IF b.page /\ takeScreenshot(shotOk) = "thrown"
            THEN Log(b0, "throw:screenshot") ELSE b0
  IN [b1 EXCEPT !.result = "failure", !.pc = "cleanup"]

closeBrowser_onlyWithPage(b) ==
  IF b.browser = "open" /\ b.page
  THEN [Log(b, "browser.close") EXCEPT !.browser = "closed"] ELSE b
\* if (this.browser) await this.browser.close()
closeBrowser(b) ==
  IF b.browser = "open"
  THEN [Log(b, "browser.close") EXCEPT !.browser = "closed"] ELSE b

\* finally { await this.cleanup() }; a failing close is caught and logged
cleanup(b, closeOk) == At(closeBrowser(Log(b, "cleanup")), "exited")

\* ---- BotScheduler (scheduler.js) -----------------------------------------
Running == {n \in 1..Len(calls) : calls[n].status = "running"}

guardSet_ignored == FALSE
\* if (this.isRunning) { logWarning(...); return; }
guardSet == isRunning

guardAfterSkip_reset == FALSE
\* the early return is outside the try: finally does not run on a skip
guardAfterSkip == isRunning

\* a cron callback fires while a run is active: runScheduledJob returns
SkipJob(j) ==
  /\ Len(calls) < MaxTriggers
  /\ guardSet
  /\ calls' = Append(calls, [job |-> j, status |-> "skipped"])
  /\ isRunning' = guardAfterSkip
  /\ UNCHANGED <<bots, waiter, units>>

\* a cron callback fires with the guard clear: isRunning = true, new bot,
\* bookParkingPass runs up to its first await (puppeteer.launch)
StartJob(j) ==
  /\ Len(calls) < MaxTriggers
  /\ ~guardSet
  /\ calls' = Append(calls, [job |-> j, status |-> "running"])
  /\ isRunning' = TRUE
  /\ bots' = [bots EXCEPT ![Len(calls) + 1] = NewBot]
  /\ UNCHANGED <<waiter, units>>

guardAfterRun_kept == isRunning
\* finally { this.isRunning = false; }
guardAfterRun == FALSE

\* bookParkingPass has returned or thrown: catch logs, finally clears the
\* guard; the bot (a local of runScheduledJob) is dropped
FinishJob(n) ==
  /\ n \in Running
  /\ bots[n].pc = "exited"
  /\ isRunning' = guardAfterRun
  /\ calls' = [calls EXCEPT ![n].status = "returned"]
  /\ bots' = [bots EXCEPT ![n] = NoBot]
  /\ UNCHANGED <<waiter, units>>

\* ---- the steps of a run ---------------------------------------------------
Step(n, b) ==
  /\ bots' = [bots EXCEPT ![n] = b]
  /\ UNCHANGED <<isRunning, calls, waiter, units>>

Initialize(n) ==
  /\ bots[n].pc = "initialize"
  /\ \E launchOk \in BOOLEAN, pageOk \in BOOLEAN, setupOk \in BOOLEAN :
       Step(n, initialize(bots[n], launchOk, pageOk, setupOk))

NavigateToPortal(n) ==
  /\ bots[n].pc = "navigateToPortal"
  /\ \E gotoOk \in BOOLEAN, shotOk \in BOOLEAN :
       Step(n, navigateToPortal(bots[n], gotoOk, shotOk))

HandleInfoPopup(n) ==
  /\ bots[n].pc = "handleInfoPopup"
  /\ \E popupExists \in BOOLEAN, buttonClicked \in BOOLEAN, shotOk \in BOOLEAN :
       Step(n, handleInfoPopup(bots[n], popupExists, buttonClicked, shotOk))

SelectPassType(n) ==
  /\ bots[n].pc = "selectPassType"
  /\ \E cardsFound \in BOOLEAN, cardClickOk \in BOOLEAN :
       Step(n, selectPassType(bots[n], cardsFound, cardClickOk))

ProbeSignedIn(n) ==
  /\ bots[n].pc = "probe"
  /\ \E exists \in BOOLEAN : Step(n, probeSignedIn(bots[n], exists))

HandleSignedInBooking(n) ==
  /\ bots[n].pc = "si_probe"
  /\ \E exists \in BOOLEAN : Step(n, handleSignedInBooking(bots[n], exists))

HandleVehicleSelectionForSignedInUser(n) ==
  /\ bots[n].pc = "si_vehicle"
  /\ \E selectorOk \in BOOLEAN, addOption \in BOOLEAN, existing \in BOOLEAN,
        optionClickOk \in BOOLEAN, formVisible \in BOOLEAN,
        fieldsOk \in BOOLEAN, saveOk \in BOOLEAN :
       Step(n, handleVehicleSelectionForSignedInUser(bots[n], selectorOk,
                 addOption, existing, optionClickOk, formVisible, fieldsOk, saveOk))

SelectDateFromNewPicker(n) ==
  /\ bots[n].pc \in {"si_date", "g_date", "pl_date"}
  /\ \E pickerVisible \in BOOLEAN, outcome \in DateOutcomes, shotOk \in BOOLEAN :
       Step(n, selectDateFromNewPicker(bots[n], pickerVisible, outcome, shotOk))

AddToCart(n) ==
  /\ bots[n].pc \in {"si_cart", "g_cart", "pl_cart"}
  /\ \E btnVisible \in BOOLEAN, soldOutExists \in BOOLEAN, clickOk \in BOOLEAN :
       Step(n, addToCart(bots[n], btnVisible, soldOutExists, clickOk))

CheckLoginForm(n) ==
  /\ bots[n].pc = "g_loginform"
  /\ \E visible \in BOOLEAN, shotOk \in BOOLEAN :
       Step(n, checkLoginForm(bots[n], visible, shotOk))

HandleLogin(n) ==
  /\ bots[n].pc = "handleLogin"
  /\ \E phoneFound \in BOOLEAN, typeOk \in BOOLEAN, nextClicked \in BOOLEAN,
        shotOk \in BOOLEAN :
       Step(n, handleLogin(bots[n], phoneFound, typeOk, nextClicked, shotOk))

OtpFind(n) ==
  /\ bots[n].pc = "otp_find"
  /\ \E inputsFound \in BOOLEAN, shotOk \in BOOLEAN :
       Step(n, otpFind(bots[n], inputsFound, shotOk))

\* one evaluation of the pending condition; page.evaluate may throw
OtpPoll(n) ==
  /\ bots[n].pc = "otp_wait"
  /\ bots[n].wait.pc = "poll"
  /\ \E evalOk \in BOOLEAN :
       Step(n, IF evalOk THEN otpLoop(bots[n], pollStep(bots[n].wait))
                         ELSE Throw(bots[n], "throw:otpPoll"))

OtpDelay(n) ==
  /\ bots[n].pc = "otp_wait"
  /\ bots[n].wait.pc = "delay"
  /\ Step(n, otpLoop(bots[n], delayStep(bots[n].wait)))

\* the human completes the verification in the browser
UserEntersOTP(n) ==
  /\ bots[n].pc = "otp_wait"
  /\ ~bots[n].wait.cleared
  /\ \E t \in Instants(bots[n].wait) :
       Step(n, [bots[n] EXCEPT !.wait = userEntersOTP(@, t)])

OtpSubmit(n) ==
  /\ bots[n].pc = "otp_submit"
  /\ \E submitted \in BOOLEAN : Step(n, otpSubmit(bots[n], submitted))

HandlePostLoginFlow(n) ==
  /\ bots[n].pc = "pl_probe"
  /\ \E exists \in BOOLEAN, found \in BOOLEAN, shotOk \in BOOLEAN :
       Step(n, handlePostLoginFlow(bots[n], exists, found, shotOk))

HandleDropdownVehicleSelection(n) ==
  /\ bots[n].pc = "pl_vehicle"
  /\ \E linkPresent \in BOOLEAN, popupOk \in BOOLEAN, selected \in BOOLEAN :
       Step(n, handleDropdownVehicleSelection(bots[n], linkPresent, popupOk,
                                              selected))

CompleteCheckout(n) ==
  /\ bots[n].pc = "completeCheckout"
  /\ \E btnVisible \in BOOLEAN, clickOk \in BOOLEAN, shotOk \in BOOLEAN :
       Step(n, completeCheckout(bots[n], btnVisible, clickOk, shotOk))

CatchLogin(n) ==
  /\ bots[n].pc = "catch_login"
  /\ \E shotOk \in BOOLEAN : Step(n, catchLogin(bots[n], shotOk))

CatchError(n) ==
  /\ bots[n].pc = "catch"
  /\ \E shotOk \in BOOLEAN : Step(n, catchError(bots[n], shotOk))

Cleanup(n) ==
  /\ bots[n].pc = "cleanup"
  /\ \E closeOk \in BOOLEAN : Step(n, cleanup(bots[n], closeOk))

\* a variable of a specification that is not the one being run
NoUnit == [pc |-> "idle"]

UnitsIdle ==
  /\ vbot = NoUnit
  /\ vlist = NoUnit
  /\ cards = NoUnit
  /\ picker = NoUnit
  /\ clicker = NoUnit
  /\ locator = NoUnit
  /\ shooter = NoUnit
  /\ registry = NoUnit

MainIdle ==
  /\ isRunning = FALSE
  /\ calls = <<>>
  /\ bots = [n \in 1..MaxTriggers |-> NoBot]
  /\ waiter = IdleWait

Init ==
  /\ isRunning = FALSE
  /\ calls = <<>>
  /\ bots = [n \in 1..MaxTriggers |-> NoBot]
  /\ waiter = IdleWait
  /\ UnitsIdle

Next ==
  \/ \E j \in Jobs : SkipJob(j)
  \/ \E j \in Jobs : StartJob(j)
  \/ \E n \in 1..MaxTriggers :
       \/ FinishJob(n)
       \/ Initialize(n)
       \/ NavigateToPortal(n)
       \/ HandleInfoPopup(n)
       \/ SelectPassType(n)
       \/ ProbeSignedIn(n)
       \/ HandleSignedInBooking(n)
       \/ HandleVehicleSelectionForSignedInUser(n)
       \/ SelectDateFromNewPicker(n)
       \/ AddToCart(n)
       \/ CheckLoginForm(n)
       \/ HandleLogin(n)
       \/ OtpFind(n)
       \/ OtpPoll(n)
       \/ OtpDelay(n)
       \/ UserEntersOTP(n)
       \/ OtpSubmit(n)
       \/ HandlePostLoginFlow(n)
       \/ HandleDropdownVehicleSelection(n)
       \/ CompleteCheckout(n)
       \/ CatchLogin(n)
       \/ CatchError(n)
       \/ Cleanup(n)

Spec == Init /\ [][Next]_vars

\* what the event loop does for a run on its own: every awaited browser
\* operation settles, and the continuation of the run is then executed.
\* The human entering the code is not part of it.
Progress ==
  \E n \in 1..MaxTriggers :
    \/ FinishJob(n)
    \/ Initialize(n)
    \/ NavigateToPortal(n)
    \/ HandleInfoPopup(n)
    \/ SelectPassType(n)
    \/ ProbeSignedIn(n)
    \/ HandleSignedInBooking(n)
    \/ HandleVehicleSelectionForSignedInUser(n)
    \/ SelectDateFromNewPicker(n)
    \/ AddToCart(n)
    \/ CheckLoginForm(n)
    \/ HandleLogin(n)
    \/ OtpFind(n)
    \/ OtpPoll(n)
    \/ OtpDelay(n)
    \/ OtpSubmit(n)
    \/ HandlePostLoginFlow(n)
    \/ HandleDropdownVehicleSelection(n)
    \/ CompleteCheckout(n)
    \/ CatchLogin(n)
    \/ CatchError(n)
    \/ Cleanup(n)

SpecFair == Init /\ [][Next]_vars /\ WF_vars(Progress)

\* ---- the checkpoint wait on its own, for any policy ----------------------
Policies ==
  {<<i, t>> : i \in 1..MaxInterval, t \in 1..MaxTimeout}
    \cup {<<checkInterval, maxWaitTime>>}

WaitInit ==
  /\ isRunning = FALSE
  /\ calls = <<>>
  /\ bots = [n \in 1..MaxTriggers |-> NoBot]
  /\ \E p \in Policies : waiter = enterLoop(NewWait(p[1], p[2]))
  /\ UnitsIdle

WaitPoll ==
  /\ waiter.pc = "poll"
  /\ waiter' = pollStep(waiter)
  /\ UNCHANGED <<isRunning, calls, bots, units>>

WaitDelay ==
  /\ waiter.pc = "delay"
  /\ waiter' = delayStep(waiter)
  /\ UNCHANGED <<isRunning, calls, bots, units>>

WaitUserEntersOTP ==
  /\ ~waiter.cleared
  /\ \E t \in Instants(waiter) : waiter' = userEntersOTP(waiter, t)
  /\ UNCHANGED <<isRunning, calls, bots, units>>

WaitNext == WaitPoll \/ WaitDelay \/ WaitUserEntersOTP

SpecWait == WaitInit /\ [][WaitNext]_vars

\* page.evaluate and delay settle and the loop goes on; the human may or
\* may not enter the code
SpecWaitFair == SpecWait /\ WF_vars(WaitPoll \/ WaitDelay)

\* ---- vehicle resolution called repeatedly on one bot instance -------------
\* addNewVehicle (bot.js 1669-1715): no caller in the repository, but a
\* public method that assigns vehicleAdded
addNewVehicle(b, addClickOk, fieldsOk, saveOk) ==
  LET b0 == Log(b, "addNewVehicle")
      b1 == fillFields(b0, fieldsOk)
  IN IF ~addClickOk THEN Throw(b0, "throw:addVehicle")
     ELSE IF ~saveOk THEN Throw(b1, "throw:saveVehicle")
     ELSE [Log(b1, "saveVehicle") EXCEPT !.vehicleAdded = TRUE]

\* vbot.bot is the instance, vbot.pre the instance before the last call,
\* vbot.op / addOption / returned describe the last call
VehCall(op, pre, post, addOption, returned) ==
  [pc |-> IF returned THEN "ready" ELSE "failed", bot |-> post,
   n |-> vbot.n + 1, pre |-> pre, op |-> op, addOption |-> addOption,
   returned |-> returned]

VehFrame == UNCHANGED <<isRunning, calls, bots, waiter, vlist, cards, picker, clicker, locator, shooter, registry>>

VehInit ==
  /\ MainIdle
  /\ vbot = [pc |-> "ready", bot |-> NewBot, n |-> 0, pre |-> NewBot,
             op |-> "none", addOption |-> FALSE, returned |-> FALSE]
  /\ vlist = NoUnit
  /\ cards = NoUnit
  /\ picker = NoUnit
  /\ clicker = NoUnit
  /\ locator = NoUnit
  /\ shooter = NoUnit
  /\ registry = NoUnit

VehResolveSignedIn ==
  /\ vbot.pc = "ready"
  /\ vbot.n < MaxResolutions
  /\ \E selectorOk, addOption, existing, optionClickOk, formVisible, fieldsOk, saveOk \in BOOLEAN :
       LET pre == At(vbot.bot, "si_vehicle")
           post == handleVehicleSelectionForSignedInUser(pre, selectorOk, addOption, existing, optionClickOk, formVisible, fieldsOk, saveOk)
       IN vbot' = VehCall("signedIn", pre, post, addOption, post.pc = "si_date")
  /\ VehFrame

VehResolveDropdown ==
  /\ vbot.pc = "ready"
  /\ vbot.n < MaxResolutions
  /\ \E linkPresent, popupOk, selected \in BOOLEAN :
       LET pre == At(vbot.bot, "pl_vehicle")
           post == handleDropdownVehicleSelection(pre, linkPresent, popupOk, selected)
       IN vbot' = VehCall("dropdown", pre, post, FALSE, post.pc = "pl_date")
  /\ VehFrame

VehAddNewVehicle ==
  /\ vbot.pc = "ready"
  /\ vbot.n < MaxResolutions
  /\ \E addClickOk, fieldsOk, saveOk \in BOOLEAN :
       LET pre == At(vbot.bot, "addNewVehicle")
           post == addNewVehicle(pre, addClickOk, fieldsOk, saveOk)
       IN vbot' = VehCall("addNewVehicle", pre, post, FALSE, post.pc = "addNewVehicle")
  /\ VehFrame

VehNext == VehResolveSignedIn \/ VehResolveDropdown \/ VehAddNewVehicle

SpecVehicle == VehInit /\ [][VehNext]_vars

\* ---- existing-vehicle selection over a list of entries --------------------
\* A text is a sequence of characters.  The two entries that are not vehicles:
SelectText == <<"S", "e", "l", "e", "c", "t", ".", ".", ".">>
AddVehicleText == <<"A", "d", "d", " ", "a", " ", "V", "e", "h", "i", "c", "l", "e">>

\* the texts an .item-title entry is drawn from, and the configured models
VehicleTexts ==
  {<<>>, <<"Y">>, <<"y">>, <<"X">>, <<"X", "Y">>, <<"x", "y">>,
   SelectText, AddVehicleText}
VehicleModels == {<<"Y">>, <<"y">>, <<"X", "Y">>, <<"e">>}

SeqsUpTo(S, n) == UNION {[1..k -> S] : k \in 0..n}
MinOf(S) == CHOOSE i \in S : \A j \in S : i <= j

\* XPath contains(text(), model) / String.includes: substring test
Contains(t, m) ==
  \E i \in 0..(Len(t) - Len(m)) : SubSeq(t, i + 1, i + Len(m)) = m

LowerChar(c) ==
  CASE c = "A" -> "a" [] c = "S" -> "s" [] c = "V" -> "v"
    [] c = "X" -> "x" [] c = "Y" -> "y" [] OTHER -> c

\* translate(text(), 'A..Z', 'a..z') and vehicleModel.toLowerCase()
LowerText(t) == [i \in 1..Len(t) |-> LowerChar(t[i])]

\* the entries matched by vehicleSelector, by flexibleSelector, and the
\* entries the last tier accepts
ExactMatches(entries, model) ==
  {i \in 1..Len(entries) : Contains(entries[i], model)}
FlexibleMatches(entries, model) ==
  {i \in 1..Len(entries) : Contains(LowerText(entries[i]), LowerText(model))}
AvailableVehicles(entries) ==
  {i \in 1..Len(entries) :
     entries[i] # <<>> /\ entries[i] # SelectText /\ entries[i] # AddVehicleText}

firstMatch_last(matches) == CHOOSE i \in matches : \A j \in matches : i >= j
\* vehicleElement[0], flexibleVehicleElement[0], the first pass of the
\* for..of loop: the first element in document order
firstMatch(matches) == MinOf(matches)

Picked(i, tier) == [selected |-> i, tier |-> tier, thrown |-> FALSE, clicks |-> 1]
PickThrows(tier) == [selected |-> 0, tier |-> tier, thrown |-> TRUE, clicks |-> 0]

\* handleDropdownVehicleSelection 1435-1575.  unclickable: the entries on
\* which both click() and the evaluate(el => el.click()) retry throw.
pickDropdownVehicle(entries, model, unclickable) ==
  LET exact == ExactMatches(entries, model)
      flexible == FlexibleMatches(entries, model)
      clickable == AvailableVehicles(entries) \ unclickable
  IN IF exact # {}
       THEN IF firstMatch(exact) \in unclickable THEN PickThrows("exact")
            ELSE Picked(firstMatch(exact), "exact")
     ELSE IF flexible # {}
       THEN IF firstMatch(flexible) \in unclickable THEN PickThrows("flexible")
            ELSE Picked(firstMatch(flexible), "flexible")
     ELSE IF clickable = {} THEN PickThrows("first")
     ELSE Picked(firstMatch(clickable), "first")

\* handleVehicleSelection 1237-1297 (no caller): every click is a plain
\* click() whose error ends the method.  unclickable: entries whose click()
\* throws.
pickVehicle(entries, model, unclickable) ==
  LET exact == ExactMatches(entries, model)
      flexible == FlexibleMatches(entries, model)
      available == AvailableVehicles(entries)
      tier == IF exact # {} THEN "exact"
              ELSE IF flexible # {} THEN "flexible" ELSE "first"
      target == IF exact # {} THEN exact
                ELSE IF flexible # {} THEN flexible ELSE available
  IN IF target = {} \/ firstMatch(target) \in unclickable THEN PickThrows(tier)
     ELSE Picked(firstMatch(target), tier)

VlFrame == UNCHANGED <<isRunning, calls, bots, waiter, vbot, cards, picker, clicker, locator, shooter, registry>>

VlInit ==
  /\ MainIdle
  /\ \E entries \in SeqsUpTo(VehicleTexts, MaxVehicles), model \in VehicleModels :
       \E unclickable \in SUBSET (1..Len(entries)) :
         vlist = [pc |-> "input", entries |-> entries, model |-> model,
                  unclickable |-> unclickable, method |-> "none",
                  res |-> PickThrows("none")]
  /\ vbot = NoUnit
  /\ cards = NoUnit
  /\ picker = NoUnit
  /\ clicker = NoUnit
  /\ locator = NoUnit
  /\ shooter = NoUnit
  /\ registry = NoUnit

VlDropdown ==
  /\ vlist.pc = "input"
  /\ vlist' = [vlist EXCEPT !.pc = "done",
                 !.method = "handleDropdownVehicleSelection",
                 !.res = pickDropdownVehicle(vlist.entries, vlist.model, vlist.unclickable)]
  /\ VlFrame

VlHandle ==
  /\ vlist.pc = "input"
  /\ vlist' = [vlist EXCEPT !.pc = "done",
                 !.method = "handleVehicleSelection",
                 !.res = pickVehicle(vlist.entries, vlist.model, vlist.unclickable)]
  /\ VlFrame

VlNext == VlDropdown \/ VlHandle

SpecVehicleList == VlInit /\ [][VlNext]_vars

\* ---- selectPassType over a list of pass cards (bot.js 224-278) ------------
AllDayPass == <<"A", "l", "l", " ", "D", "a", "y", " ", "P", "a", "s", "s">>
AllDashDayPass == <<"A", "l", "l", "-", "d", "a", "y", " ", "P", "a", "s", "s">>
HalfDayPass == <<"H", "a", "l", "f", " ", "D", "a", "y", " ", "P", "a", "s", "s">>
HalfDashDayPass == <<"H", "a", "l", "f", "-", "d", "a", "y", " ", "P", "a", "s", "s">>

\* the textContent a .gridCard is drawn from, and the values of passType
CardTexts ==
  {AllDayPass, AllDashDayPass, HalfDayPass, HalfDashDayPass,
   <<"a", "l", "l", " ", "d", "a", "y", " ", "p", "a", "s", "s">>,
   <<"B", "u", "y", " ", "H", "a", "l", "f", "-", "d", "a", "y", " ", "P", "a", "s", "s">>}
PassTypes == {"all_day", "half_day", "weekly"}

isAllDay(cardText) ==
  Contains(cardText, AllDayPass) \/ Contains(cardText, AllDashDayPass)

isHalfDay_spaced(cardText) == Contains(cardText, HalfDayPass)
isHalfDay(cardText) ==
  Contains(cardText, HalfDayPass) \/ Contains(cardText, HalfDashDayPass)

isRequested(cardText, passType) ==
  \/ passType = "all_day" /\ isAllDay(cardText)
  \/ passType = "half_day" /\ isHalfDay(cardText)

\* unreadable: the cards whose evaluate() throws; unclickable: the cards
\* whose click() throws.  Inside the loop either error is caught and the loop
\* goes on with the next card; the fallback click is outside that try.
selectPassCard(passCards, passType, unreadable, unclickable) ==
  LET matching == {i \in 1..Len(passCards) :
                     i \notin unreadable /\ isRequested(passCards[i], passType)}
      clicked == matching \ unclickable
  IN IF clicked # {}
       THEN [clicked |-> MinOf(clicked), fallback |-> FALSE, thrown |-> "none"]
     ELSE IF Len(passCards) = 0
       THEN [clicked |-> 0, fallback |-> FALSE, thrown |-> "No pass cards found"]
     ELSE IF 1 \in unclickable
       THEN [clicked |-> 0, fallback |-> TRUE, thrown |-> "click"]
     ELSE [clicked |-> 1, fallback |-> TRUE, thrown |-> "none"]

breakAfterClick_never == FALSE
\* await card.click(); passSelected = true; ...; break;
breakAfterClick == TRUE

\* the cards clicked successfully by the loop over passCards from card i on:
\* a card whose text cannot be read or whose click throws is passed over
RECURSIVE loopClicks(_, _, _, _, _)
loopClicks(passCards, passType, unreadable, unclickable, i) ==
  IF i > Len(passCards) THEN <<>>
  ELSE IF /\ i \notin unreadable
          /\ isRequested(passCards[i], passType)
          /\ i \notin unclickable
    THEN IF breakAfterClick THEN <<i>>
         ELSE <<i>> \o loopClicks(passCards, passType, unreadable, unclickable, i + 1)
  ELSE loopClicks(passCards, passType, unreadable, unclickable, i + 1)

\* every click of the stage that succeeded, in order: those of the loop,
\* and the fallback click on the first card when the loop selected nothing
cardClicks(passCards, passType, unreadable, unclickable) ==
  LET inLoop == loopClicks(passCards, passType, unreadable, unclickable, 1)
  IN IF inLoop # <<>> THEN inLoop
     ELSE IF Len(passCards) > 0 /\ 1 \notin unclickable THEN <<1>>
     ELSE <<>>

PassInit ==
  /\ MainIdle
  /\ \E passCards \in SeqsUpTo(CardTexts, MaxCards), passType \in PassTypes :
       \E unreadable, unclickable \in SUBSET (1..Len(passCards)) :
         cards = [pc |-> "input", passCards |-> passCards, passType |-> passType,
                  unreadable |-> unreadable, unclickable |-> unclickable,
                  clicks |-> <<>>,
                  res |-> [clicked |-> 0, fallback |-> FALSE, thrown |-> "none"]]
  /\ vbot = NoUnit
  /\ vlist = NoUnit
  /\ picker = NoUnit
  /\ clicker = NoUnit
  /\ locator = NoUnit
  /\ shooter = NoUnit
  /\ registry = NoUnit

PassSelect ==
  /\ cards.pc = "input"
  /\ cards' = [cards EXCEPT !.pc = "done",
                 !.clicks = cardClicks(cards.passCards, cards.passType,
                                       cards.unreadable, cards.unclickable),
                 !.res = selectPassCard(cards.passCards, cards.passType,
                                        cards.unreadable, cards.unclickable)]
  /\ UNCHANGED <<isRunning, calls, bots, waiter, vbot, vlist, picker, clicker, locator, shooter, registry>>

PassNext == PassSelect

SpecPass == PassInit /\ [][PassNext]_vars

\* ---- selectDateFromNewPicker over a date picker (bot.js 283-500) ----------
\* the values of config.preferredDate (the empty text: not set) and the raw
\* textContent of a button.date
PreferredDates ==
  {<<>>, <<"1", "7">>, <<"7">>, <<"0", "8", "/", "1", "7">>, <<"0", "8", "/", "0", "7">>, <<"8", "/", "1", "7">>, <<"1", "7", "7">>}
ButtonTexts == {<<"1", "7">>, <<" ", "1", "7", " ">>, <<"7">>, <<"1", "8">>}
\* the button.date elements of #scheduler_12196 that are outside .dateMain
ExtraButtons == {<<>>, <<<<"1", "7">>>>, <<<<"1", "8">>>>}

IsDigit(c) == c \in {"0", "1", "2", "3", "4", "5", "6", "7", "8", "9"}

\* /^\d{2}\/\d{2}$/
IsMMDD(d) ==
  /\ Len(d) = 5
  /\ IsDigit(d[1]) /\ IsDigit(d[2]) /\ d[3] = "/" /\ IsDigit(d[4]) /\ IsDigit(d[5])

\* /^\d{1,2}$/
IsDay(d) == Len(d) \in {1, 2} /\ \A i \in 1..Len(d) : IsDigit(d[i])

dayComponent_month(d) ==
  LET k == MinOf({i \in 1..Len(d) : d[i] = "/"}) IN SubSeq(d, 1, k - 1)
\* preferredDate.split("/")[1] of a text with one "/"
dayComponent(d) ==
  LET k == MinOf({i \in 1..Len(d) : d[i] = "/"}) IN SubSeq(d, k + 1, Len(d))

\* let preferredDay: the empty text stands for undefined
preferredDay(d) ==
  IF IsMMDD(d) THEN dayComponent(d) ELSE IF IsDay(d) THEN d ELSE <<>>

RECURSIVE Trim(_)
\* String.trim, for the blank the texts here are padded with
Trim(t) ==
  IF t = <<>> THEN t
  ELSE IF Head(t) = " " THEN Trim(Tail(t))
  ELSE IF t[Len(t)] = " " THEN Trim(SubSeq(t, 1, Len(t) - 1))
  ELSE t

\* dateButtons: the buttons under .dateMain, or those of the alternative
\* selector when there are none
DateButtons(primary, extra) == IF primary # <<>> THEN primary ELSE extra

isAlreadyActive_never(activeDateText, day) == FALSE
\* if (activeDateText === preferredDay) dateSelected = true
isAlreadyActive(activeDateText, day) == activeDateText = day

needsFallback_onlyUnset(d, dateSelected) == d = <<>>
\* if (!config.preferredDate || !dateSelected)
needsFallback(d, dateSelected) == d = <<>> \/ ~dateSelected

DateThrows(clicks, why) ==
  [clicks |-> clicks, dateSelected |-> FALSE, thrown |-> why, warned |-> FALSE]

finish_strict(clicks, dateSelected) ==
  [clicks |-> clicks, dateSelected |-> dateSelected,
   thrown |-> IF dateSelected THEN "none" ELSE "noDate", warned |-> ~dateSelected]
\* bot.js 477-495: a warning when no date was selected, then return true
finish(clicks, dateSelected) ==
  [clicks |-> clicks, dateSelected |-> dateSelected, thrown |-> "none",
   warned |-> ~dateSelected]

\* d: config.preferredDate; primary / extra: the raw texts of the buttons
\* under .dateMain and outside it; active: the button.date.active under
\* .dateMain (0: none); clicks: the indices in dateButtons of the buttons
\* clicked, in order.
selectDateButton(d, primary, extra, active, pickerVisible, clickOk) ==
  LET day == preferredDay(d)
      dateButtons == DateButtons(primary, extra)
      searched == d # <<>> /\ day # <<>>
      alreadyActive ==
        searched /\ active # 0 /\ isAlreadyActive(Trim(primary[active]), day)
      matches == {i \in 1..Len(dateButtons) : Trim(dateButtons[i]) = day}
      clickPreferred == searched /\ ~alreadyActive /\ matches # {}
      clicks1 == IF clickPreferred THEN <<MinOf(matches)>> ELSE <<>>
      selected1 == alreadyActive \/ clickPreferred
  IN IF ~pickerVisible THEN DateThrows(<<>>, "picker")
     ELSE IF clickPreferred /\ ~clickOk THEN DateThrows(clicks1, "click")
     ELSE IF needsFallback(d, selected1) /\ dateButtons # <<>>
       THEN IF clickOk THEN finish(Append(clicks1, 1), TRUE)
            ELSE DateThrows(Append(clicks1, 1), "click")
     ELSE finish(clicks1, selected1)

DateInit ==
  /\ MainIdle
  /\ \E d \in PreferredDates, primary \in SeqsUpTo(ButtonTexts, MaxButtons), extra \in ExtraButtons :
       \E active \in 0..Len(primary), pickerVisible, clickOk \in BOOLEAN :
         picker = [pc |-> "input", preferredDate |-> d, primary |-> primary,
                   extra |-> extra, active |-> active,
                   pickerVisible |-> pickerVisible, clickOk |-> clickOk,
                   res |-> finish(<<>>, FALSE)]
  /\ vbot = NoUnit
  /\ vlist = NoUnit
  /\ cards = NoUnit
  /\ clicker = NoUnit
  /\ locator = NoUnit
  /\ shooter = NoUnit
  /\ registry = NoUnit

DateSelect ==
  /\ picker.pc = "input"
  /\ picker' = [picker EXCEPT !.pc = "done",
                  !.res = selectDateButton(picker.preferredDate, picker.primary,
                            picker.extra, picker.active, picker.pickerVisible,
                            picker.clickOk)]
  /\ UNCHANGED <<isRunning, calls, bots, waiter, vbot, vlist, cards, clicker, locator, shooter, registry>>

DateNext == DateSelect

SpecDate == DateInit /\ [][DateNext]_vars

\* ---- clickElement (scheduler.js 267-285) ----------------------------------
maxRetriesDefault == 3   \* maxRetries = 3
retryDelay == 1000       \* await delay(1000)

\* what an attempt (waitForElementVisible, then page.click) can end with
ClickErrors == {"Element not visible", "Node is detached", "click failed"}

lastAttempt_never(attempt, maxRetries) == attempt > maxRetries
\* if (attempt === maxRetries) throw error
lastAttempt(attempt, maxRetries) == attempt = maxRetries

ClickFrame == UNCHANGED <<isRunning, calls, bots, waiter, vbot, vlist, cards, picker, locator, shooter, registry>>

\* log: the outcome of every attempt made; waited: the time spent in delay()
ClickInit ==
  /\ MainIdle
  /\ locator = NoUnit
  /\ shooter = NoUnit
  /\ registry = NoUnit
  /\ \E given \in BOOLEAN, m \in 0..MaxRetries :
       clicker = [pc |-> "test", given |-> given,
                  maxRetries |-> IF given THEN m ELSE maxRetriesDefault,
                  attempt |-> 1, log |-> <<>>, waited |-> 0,
                  result |-> "pending", error |-> "none"]
  /\ vbot = NoUnit
  /\ vlist = NoUnit
  /\ cards = NoUnit
  /\ picker = NoUnit

\* for (...; attempt <= maxRetries; ...), and the return false after the loop
ClickLoopTest ==
  /\ clicker.pc = "test"
  /\ clicker' = IF clicker.attempt <= clicker.maxRetries
                 THEN [clicker EXCEPT !.pc = "try"]
                 ELSE [clicker EXCEPT !.pc = "done", !.result = "false"]
  /\ ClickFrame

\* the try block succeeds: return true
ClickSucceeds ==
  /\ clicker.pc = "try"
  /\ clicker' = [clicker EXCEPT !.pc = "done", !.result = "true",
                   !.log = Append(@, "ok")]
  /\ ClickFrame

\* the try block throws e: rethrow it on the last attempt, else go to delay
ClickFails ==
  /\ clicker.pc = "try"
  /\ \E e \in ClickErrors :
       clicker' = IF lastAttempt(clicker.attempt, clicker.maxRetries)
                  THEN [clicker EXCEPT !.pc = "done", !.result = "thrown",
                          !.error = e, !.log = Append(@, e)]
                  ELSE [clicker EXCEPT !.pc = "delay", !.log = Append(@, e)]
  /\ ClickFrame

\* await delay(1000); attempt++
ClickDelay ==
  /\ clicker.pc = "delay"
  /\ clicker' = [clicker EXCEPT !.pc = "test", !.attempt = @ + 1,
                   !.waited = @ + retryDelay]
  /\ ClickFrame

ClickNext == ClickLoopTest \/ ClickSucceeds \/ ClickFails \/ ClickDelay

SpecClick == ClickInit /\ [][ClickNext]_vars

\* ---- targets resolved through an ordered list of strategies ---------------
\* What one strategy (a selector, an XPath, one element of a scan) yields:
\*   "none"         no element, or one that fails the strategy's text or
\*                  attribute test, or whose read throws (caught, continue)
\*   "match"        an element that passes the test; acting on it succeeds
\*   "unclickable"  an element that passes the test; the click throws
StrategyKinds == {"none", "match", "unclickable"}

popupSelectors == 7    \* buttonSelectors of handleInfoPopup
phoneSelectors == 4    \* phoneInputSelectors of handleLogin
submitSelectors == 4   \* submitSelectors of handleOTPVerification

KindLists(n) == [1..n -> StrategyKinds]

\* a loop `for (c of candidates) try { if (test(c)) { click(c); break } }
\* catch { continue }`: the candidate clicked (0: none) and those on which a
\* click was attempted
firstIndex_last(is) ==
  IF is = {} THEN 0 ELSE CHOOSE i \in is : \A j \in is : i >= j
\* `for (...) { if (...) { ...; break } }`: the first index that passes, or 0
firstIndex(is) == IF is = {} THEN 0 ELSE MinOf(is)

Clicked(ks) == firstIndex({i \in 1..Len(ks) : ks[i] = "match"})
Tried(ks) ==
  {i \in 1..Len(ks) : ks[i] # "none" /\ (Clicked(ks) = 0 \/ i <= Clicked(ks))}

Hit(strategy, i) == [strategy |-> strategy, idx |-> i]
Nothing == [strategy |-> "none", idx |-> 0]
Marked(strategy, is) == {Hit(strategy, i) : i \in is}

Located(used, tried, thrown) == [used |-> used, tried |-> tried, thrown |-> thrown]

popupCatch_rethrows(used, tried) == Located(used, tried, "Failed to handle info popup")
\* catch (error) { logError; logWarning("Continuing ..."); return true }
popupCatch(used, tried) == Located(used, tried, "none")

\* handleInfoPopup 87-219.  failure: "eval" when the $eval of the popup text
\* throws, "scan" when page.$$("a, button, .themeBtn") throws.
clickGoToPass(popupExists, failure, xpath, css, elements) ==
  LET t1 == IF xpath = "none" THEN {} ELSE {Hit("xpath", 1)}
      t2 == t1 \cup Marked("css", Tried(css))
      t3 == t2 \cup Marked("scan", Tried(elements))
  IN IF ~popupExists THEN Located(Nothing, {}, "none")
     ELSE IF failure = "eval" THEN popupCatch(Nothing, {})
     ELSE IF xpath = "match" THEN Located(Hit("xpath", 1), t1, "none")
     ELSE IF Clicked(css) # 0 THEN Located(Hit("css", Clicked(css)), t2, "none")
     ELSE IF failure = "scan" THEN popupCatch(Nothing, t2)
     ELSE IF Clicked(elements) # 0
       THEN Located(Hit("scan", Clicked(elements)), t3, "none")
     ELSE Located(Nothing, t3, "none")

LocFrame == UNCHANGED <<isRunning, calls, bots, waiter, vbot, vlist, cards, picker, clicker, shooter, registry>>

LocInit ==
  /\ MainIdle
  /\ locator = [pc |-> "ready", target |-> "none", first |-> <<>>,
                strategies |-> <<>>, elements |-> <<>>, failure |-> "none",
                res |-> Located(Nothing, {}, "none")]
  /\ vbot = NoUnit
  /\ vlist = NoUnit
  /\ cards = NoUnit
  /\ picker = NoUnit
  /\ clicker = NoUnit
  /\ shooter = NoUnit
  /\ registry = NoUnit

\* first: the strategy tried before the selector list (the XPath);
\* strategies: the selector list; elements: the elements of the final scan
LocDone(target, first, strategies, elements, failure, res) ==
  locator' = [pc |-> "done", target |-> target, first |-> first,
              strategies |-> strategies, elements |-> elements,
              failure |-> failure, res |-> res]

LocPopupButton ==
  /\ locator.pc = "ready"
  /\ \E popupExists \in BOOLEAN, failure \in {"none", "eval", "scan"}, xpath \in StrategyKinds :
       \E css \in KindLists(popupSelectors), elements \in SeqsUpTo(StrategyKinds, MaxElements) :
         LocDone(IF popupExists THEN "popupButton" ELSE "noPopup", <<xpath>>,
                 css, elements, failure,
                 clickGoToPass(popupExists, failure, xpath, css, elements))
  /\ LocFrame

\* a loop that only looks for an element: the first candidate that is there
firstFound(ks) == firstIndex({i \in 1..Len(ks) : ks[i] # "none"})

\* if (!phoneInputFound || !phoneInput) throw new Error("Could not find ...")
noPhoneInput(found) == found = Nothing

\* handleLogin 899-975.  For the phone input "unclickable" is an input whose
\* focus() or type() throws; failure "scan": page.$$("input") throws.
findPhoneInput(selectors, failure, elements) ==
  LET found == IF firstFound(selectors) # 0
                 THEN Hit("selector", firstFound(selectors))
               ELSE IF failure # "scan" /\ firstFound(elements) # 0
                 THEN Hit("scan", firstFound(elements))
               ELSE Nothing
      kind == IF found.strategy = "selector" THEN selectors[found.idx]
              ELSE IF found.strategy = "scan" THEN elements[found.idx]
              ELSE "none"
  IN IF firstFound(selectors) = 0 /\ failure = "scan"
       THEN Located(Nothing, {}, "scan failed")
     ELSE IF noPhoneInput(found)
       THEN Located(Nothing, {}, "Could not find phone number input field")
     ELSE Located(found, {found}, IF kind = "match" THEN "none" ELSE "type failed")

notFound_never(used, message) == "none"
\* if (!nextButtonClicked) throw new Error(...); if (!otpSubmitted) throw ...
notFound(used, message) == IF used = Nothing THEN message ELSE "none"

\* handleLogin 982-1033: the scan of "a, button" for a text with "next", then
\* ".cardfooter .themeBtn.button"; failure "scan": page.$$ throws
clickNextButton(failure, elements, specific) ==
  LET t1 == Marked("scan", Tried(elements))
      t2 == t1 \cup (IF specific = "none" THEN {} ELSE {Hit("selector", 1)})
  IN IF failure = "scan" THEN Located(Nothing, {}, "scan failed")
     ELSE IF Clicked(elements) # 0
       THEN Located(Hit("scan", Clicked(elements)), t1, "none")
     ELSE LET used == IF specific = "match" THEN Hit("selector", 1) ELSE Nothing
          IN Located(used, t2,
                     notFound(used, "Could not find or click Next button"))

\* handleOTPVerification 1168-1195; "unclickable": clickElement throws
submitOtp(selectors) ==
  LET used == IF Clicked(selectors) # 0
              THEN Hit("selector", Clicked(selectors)) ELSE Nothing
  IN Located(used, Marked("selector", Tried(selectors)),
             notFound(used, "Could not submit OTP"))

LocPhoneInput ==
  /\ locator.pc = "ready"
  /\ \E selectors \in KindLists(phoneSelectors), failure \in {"none", "scan"} :
       \E elements \in SeqsUpTo(StrategyKinds, MaxElements) :
         LocDone("phoneInput", <<>>, selectors, elements, failure,
                 findPhoneInput(selectors, failure, elements))
  /\ LocFrame

LocNextButton ==
  /\ locator.pc = "ready"
  /\ \E specific \in StrategyKinds, failure \in {"none", "scan"} :
       \E elements \in SeqsUpTo(StrategyKinds, MaxElements) :
         LocDone("nextButton", <<>>, <<specific>>, elements, failure,
                 clickNextButton(failure, elements, specific))
  /\ LocFrame

LocOtpSubmit ==
  /\ locator.pc = "ready"
  /\ \E selectors \in KindLists(submitSelectors) :
       LocDone("otpSubmit", <<>>, selectors, <<>>, "none", submitOtp(selectors))
  /\ LocFrame

LocNext == LocPopupButton \/ LocPhoneInput \/ LocNextButton \/ LocOtpSubmit

SpecLocate == LocInit /\ [][LocNext]_vars

\* ---- one stage that takes a screenshot (SpecShot) -------------------------
\* the stages of a run that call takeScreenshot or page.screenshot, each
\* with the position at which it is entered
ShotStages ==
  {"navigateToPortal", "handleInfoPopup", "selectDateFromNewPicker",
   "checkLoginForm", "handleLogin", "handleOTPVerification",
   "handlePostLoginFlow", "completeCheckout", "catchLogin", "catchError"}

StagePc(stage) ==
  IF stage = "selectDateFromNewPicker" THEN "g_date"
  ELSE IF stage = "checkLoginForm" THEN "g_loginform"
  ELSE IF stage = "handleOTPVerification" THEN "otp_find"
  ELSE IF stage = "handlePostLoginFlow" THEN "pl_probe"
  ELSE IF stage = "catchLogin" THEN "catch_login"
  ELSE IF stage = "catchError" THEN "catch"
  ELSE stage

\* a bot with its page open, about to enter the stage
StageBot(stage) ==
  [NewBot EXCEPT !.pc = StagePc(stage), !.browser = "open", !.page = TRUE]

ShotInputs == [x : BOOLEAN, y : BOOLEAN, z : BOOLEAN, outcome : DateOutcomes]

runStage(stage, b, i, shotOk) ==
  IF stage = "navigateToPortal" THEN navigateToPortal(b, i.x, shotOk)
  ELSE IF stage = "handleInfoPopup" THEN handleInfoPopup(b, i.x, i.y, shotOk)
  ELSE IF stage = "selectDateFromNewPicker"
    THEN selectDateFromNewPicker(b, i.x, i.outcome, shotOk)
  ELSE IF stage = "checkLoginForm" THEN checkLoginForm(b, i.x, shotOk)
  ELSE IF stage = "handleLogin" THEN handleLogin(b, i.x, i.y, i.z, shotOk)
  ELSE IF stage = "handleOTPVerification" THEN otpFind(b, i.x, shotOk)
  ELSE IF stage = "handlePostLoginFlow"
    THEN handlePostLoginFlow(b, i.x, i.y, shotOk)
  ELSE IF stage = "completeCheckout" THEN completeCheckout(b, i.x, i.y, shotOk)
  ELSE IF stage = "catchLogin" THEN catchLogin(b, shotOk)
  ELSE catchError(b, shotOk)

ShotFrame == UNCHANGED <<isRunning, calls, bots, waiter, vbot, vlist, cards, picker, clicker, locator, registry>>

ShotInit ==
  /\ MainIdle
  /\ shooter = [pc |-> "ready", stage |-> "none", shotOk |-> TRUE,
                inputs |-> [x |-> FALSE, y |-> FALSE, z |-> FALSE,
                            outcome |-> "clicked"],
                pre |-> NoBot, post |-> NoBot]
  /\ vbot = NoUnit
  /\ vlist = NoUnit
  /\ cards = NoUnit
  /\ picker = NoUnit
  /\ clicker = NoUnit
  /\ locator = NoUnit
  /\ registry = NoUnit

\* one stage runs from its entry with some outcome of everything it does on
\* the page and with the screenshot saved or failing
ShotStage ==
  /\ shooter.pc = "ready"
  /\ \E stage \in ShotStages, i \in ShotInputs, shotOk \in BOOLEAN :
       shooter' = [pc |-> "done", stage |-> stage, shotOk |-> shotOk,
                   inputs |-> i, pre |-> StageBot(stage),
                   post |-> runStage(stage, StageBot(stage), i, shotOk)]
  /\ ShotFrame

ShotNext == ShotStage

SpecShot == ShotInit /\ [][ShotNext]_vars

\* ---- the job registry of BotScheduler (scheduler.js 22-60, 131-163) ---------
\* scheduledJobs is a Map: its entries [name, job] in insertion order. A job
\* is the ScheduledTask that cron.schedule returned, named here by its index
\* in tasks, where its state and the name it was created for are kept.
JobFrame == UNCHANGED <<isRunning, calls, bots, waiter, vbot, vlist, cards, picker, clicker, locator, shooter>>

\* this.scheduledJobs.get(jobName): 0 stands for undefined
jobOf(s, jobName) ==
  IF \E i \in 1..Len(s.scheduledJobs) : s.scheduledJobs[i].name = jobName
  THEN s.scheduledJobs[CHOOSE i \in 1..Len(s.scheduledJobs) :
                         s.scheduledJobs[i].name = jobName].job
  ELSE 0

\* this.scheduledJobs.delete(jobName)
IsNot(jobName, e) == e.name # jobName
withoutJob(m, jobName) ==
  LET keep(e) == IsNot(jobName, e) IN SelectSeq(m, keep)

\* this.scheduledJobs.set(jobName, job): an existing key keeps its place
withJob(m, jobName, job) ==
  IF \E i \in 1..Len(m) : m[i].name = jobName
  THEN [i \in 1..Len(m) |->
          IF m[i].name = jobName THEN [name |-> jobName, job |-> job] ELSE m[i]]
  ELSE Append(m, [name |-> jobName, job |-> job])

stopJob_forgets(s, jobName) ==
  LET job == jobOf(s, jobName)
  IN IF job # 0
     THEN [s EXCEPT !.scheduledJobs = withoutJob(@, jobName),
                    !.ret = TRUE]
     ELSE [s EXCEPT !.ret = FALSE]
\* stopJob 131-145
stopJob(s, jobName) ==
  LET job == jobOf(s, jobName)
  IN IF job # 0
     THEN [s EXCEPT !.tasks[job].state = "stopped",
                    !.log = Append(@, [ev |-> "stop", job |-> job]),
                    !.scheduledJobs = withoutJob(@, jobName),
                    !.ret = TRUE]
     ELSE [s EXCEPT !.ret = FALSE]

\* cron.schedule(..., {scheduled: false}), scheduledJobs.set, job.start()
startNew(s, jobName) ==
  LET job == Len(s.tasks) + 1
  IN [s EXCEPT !.tasks = Append(@, [name |-> jobName, state |-> "started"]),
               !.scheduledJobs = withJob(@, jobName, job),
               !.log = Append(@, [ev |-> "start", job |-> job]),
               !.ret = TRUE]

scheduleJob_stopsFirst(s, valid, jobName) ==
  LET s1 == IF jobOf(s, jobName) # 0 THEN stopJob(s, jobName) ELSE s
  IN IF ~valid THEN [s1 EXCEPT !.ret = FALSE] ELSE startNew(s1, jobName)
\* scheduleJob 22-60; valid is what cron.validate(cronExpression) returns
scheduleJob(s, valid, jobName) ==
  IF ~valid THEN [s EXCEPT !.ret = FALSE]
  ELSE LET s1 == IF jobOf(s, jobName) # 0 THEN stopJob(s, jobName) ELSE s
       IN startNew(s1, jobName)

\* stopAllJobs 151-163: every stored job is stopped in Map order, then clear()
stopAllJobs(s) ==
  LET m == s.scheduledJobs
      stored == {m[i].job : i \in 1..Len(m)}
  IN [s EXCEPT !.tasks = [j \in 1..Len(s.tasks) |->
                            IF j \in stored
                            THEN [s.tasks[j] EXCEPT !.state = "stopped"]
                            ELSE s.tasks[j]],
               !.log = @ \o [i \in 1..Len(m) |-> [ev |-> "stop", job |-> m[i].job]],
               !.scheduledJobs = <<>>,
               !.ret = TRUE]

JobInit ==
  /\ MainIdle
  /\ vbot = NoUnit
  /\ vlist = NoUnit
  /\ cards = NoUnit
  /\ picker = NoUnit
  /\ clicker = NoUnit
  /\ locator = NoUnit
  /\ shooter = NoUnit
  /\ registry = [pc |-> "ready", scheduledJobs |-> <<>>, tasks |-> <<>>,
                 log |-> <<>>, ret |-> FALSE, n |-> 0,
                 op |-> "none", jobName |-> "none", valid |-> FALSE]

Called(s, op, jobName, valid) ==
  [s EXCEPT !.n = @ + 1, !.op = op, !.jobName = jobName, !.valid = valid]

ScheduleJob ==
  /\ registry.n < MaxApiCalls
  /\ \E valid \in BOOLEAN, jobName \in Jobs :
       registry' = Called(scheduleJob(registry, valid, jobName),
                          "scheduleJob", jobName, valid)
  /\ JobFrame

StopJob ==
  /\ registry.n < MaxApiCalls
  /\ \E jobName \in Jobs :
       registry' = Called(stopJob(registry, jobName), "stopJob", jobName, FALSE)
  /\ JobFrame

StopAllJobs ==
  /\ registry.n < MaxApiCalls
  /\ registry' = Called(stopAllJobs(registry), "stopAllJobs", "none", FALSE)
  /\ JobFrame

JobNext == ScheduleJob \/ StopJob \/ StopAllJobs

SpecJobs == JobInit /\ [][JobNext]_vars

\* ---- reading a run's history ------------------------------------------------
Has(b, e) == \E k \in 1..Len(b.trace) : b.trace[k] = e
Count(b, e) == Cardinality({k \in 1..Len(b.trace) : b.trace[k] = e})
First(b, e) == CHOOSE k \in 1..Len(b.trace) :
                 /\ b.trace[k] = e
                 /\ \A m \in 1..(k - 1) : b.trace[m] # e

ThrowEvents ==
  {"throw:initialize", "throw:navigate", "throw:noPassCards", "throw:passClick",
   "throw:vehicleForm", "throw:saveVehicle", "throw:vehicleSelector",
   "throw:vehicleOption", "throw:datePicker", "throw:dateClick",
   "throw:cartNotVisible", "throw:soldOut", "throw:cartClick",
   "throw:noLoginForm", "throw:noPhoneInput", "throw:phoneType",
   "throw:noNextButton", "throw:noOtpInputs", "throw:otpPoll",
   "throw:otpTimeout", "throw:otpSubmit", "throw:postLogin",
   "throw:noSmartSelect", "throw:vehiclePopup", "throw:noVehicle",
   "throw:checkoutNotVisible", "throw:checkoutClick"}

\* what bookParkingPass still does once an error is propagating
AfterFailure ==
  {"screenshot:login_failed", "screenshot:error_state", "cleanup",
   "browser.close"}

BotIds == 1..MaxTriggers

\* ---- C1 ---------------------------------------------------------------------
\* C1: whatever the interleaving of cron callbacks, at most one
\* runScheduledJob invocation is past the guard and at most one bot exists
\* (one bookParkingPass in progress) at any time.
C1_AtMostOneRun ==
  /\ Cardinality(Running) <= 1
  /\ Cardinality({n \in BotIds : bots[n].pc # "none"}) <= 1

\* a second job fired while the first run was suspended in the OTP wait
C1_Witness ==
  \E n \in Running, m \in 1..Len(calls) :
    /\ bots[n].pc = "otp_wait"
    /\ calls[m].status = "skipped"
    /\ calls[m].job # calls[n].job

\* ---- C2 ---------------------------------------------------------------------
\* C2: an invocation made while isRunning is true creates no bot, leaves
\* isRunning true and is recorded as skipped; a skipped invocation stays
\* skipped for ever after (no bot is ever created for it).
C2_SkipLeavesGuard ==
  [][/\ (isRunning /\ Len(calls') > Len(calls)) =>
          /\ isRunning'
          /\ bots' = bots
          /\ calls'[Len(calls')].status = "skipped"
     /\ \A n \in 1..Len(calls) :
          calls[n].status = "skipped" =>
            /\ calls'[n].status = "skipped"
            /\ bots'[n] = NoBot]_vars

\* the active run has ended and the invocation it made skip was not run
C2_Witness ==
  /\ ~isRunning
  /\ \E n \in 1..Len(calls), m \in 1..Len(calls) :
       /\ n < m
       /\ calls[n].status = "returned"
       /\ calls[m].status = "skipped"

\* ---- C3 ---------------------------------------------------------------------
\* C3: when bookParkingPass has returned or thrown, a browser that the run
\* launched has been asked to close.
C3_BrowserClosedOnExit ==
  \A n \in BotIds : bots[n].pc = "exited" => bots[n].browser # "open"

\* initialize failed after the launch, before a page existed
C3_Witness ==
  \E n \in BotIds :
    /\ bots[n].pc = "exited"
    /\ bots[n].browser = "closed"
    /\ ~bots[n].page
    /\ bots[n].result = "failure"

\* ---- C4 ---------------------------------------------------------------------
\* C4: once addToCart has seen the sold-out indicator, that call throws
\* without clicking the add-to-cart button, and the run neither clicks it
\* later, nor reaches completeCheckout, nor ends as a success.
C4_SoldOutNoCheckout ==
  \A n \in BotIds :
    \A k \in 1..Len(bots[n].trace) :
      bots[n].trace[k] = "soldOutSeen" =>
        /\ k < Len(bots[n].trace)
        /\ bots[n].trace[k + 1] = "throw:soldOut"
        /\ \A m \in (k + 1)..Len(bots[n].trace) :
             bots[n].trace[m] \notin
               {"clickAddToCart", "completeCheckout", "clickCheckout"}
        /\ bots[n].result # "success"
        /\ bots[n].pc \in {"catch_login", "catch", "cleanup", "exited"}

\* sold out seen by the post-login addToCart; the run has ended as failed
C4_Witness ==
  \E n \in BotIds :
    /\ Has(bots[n], "soldOutSeen")
    /\ Has(bots[n], "handlePostLoginFlow")
    /\ bots[n].pc = "exited"
    /\ bots[n].result = "failure"

\* ---- C5 ---------------------------------------------------------------------
\* C5: after a stage has thrown, the run performs only the diagnostic
\* screenshots and the browser cleanup, and it ends as failed.
C5_FailureAborts ==
  \A n \in BotIds :
    \A k \in 1..Len(bots[n].trace) :
      bots[n].trace[k] \in ThrowEvents =>
        /\ \A m \in (k + 1)..Len(bots[n].trace) :
             bots[n].trace[m] \in AfterFailure
        /\ bots[n].result # "success"
        /\ bots[n].pc \in {"catch_login", "catch", "cleanup", "exited"}
        /\ bots[n].pc = "exited" => bots[n].result = "failure"

\* signed-in vehicle resolution threw; the run ended as failed
C5_Witness ==
  \E n \in BotIds :
    /\ Has(bots[n], "throw:vehicleOption")
    /\ bots[n].pc = "exited"
    /\ bots[n].result = "failure"

\* ---- C6 ---------------------------------------------------------------------
\* C6: the branch is decided by one probe, made right after pass selection.
\* Selector present: signed-in branch, no handleLogin and no
\* handleOTPVerification.  Selector absent: guest branch, in which date
\* selection comes before the first addToCart and that before handleLogin.
C6_BranchByProbe ==
  \A n \in BotIds :
    LET b == bots[n] IN
    /\ Count(b, "probe:present") + Count(b, "probe:absent") <= 1
    /\ \A k \in 1..Len(b.trace) :
         /\ b.trace[k] \in {"probe:present", "probe:absent"} =>
              k > 1 /\ b.trace[k - 1] = "clickPassCard"
         /\ (b.trace[k] = "clickPassCard" /\ k < Len(b.trace)) =>
              b.trace[k + 1] \in {"probe:present", "probe:absent"}
    /\ Has(b, "probe:present") =>
         /\ b.branch = "signedIn"
         /\ ~Has(b, "handleLogin")
         /\ ~Has(b, "handleOTPVerification")
    /\ Has(b, "probe:absent") =>
         /\ b.branch = "guest"
         /\ ~Has(b, "handleSignedInBooking")
         /\ Has(b, "addToCart") =>
              /\ Has(b, "selectDateFromNewPicker")
              /\ First(b, "selectDateFromNewPicker") < First(b, "addToCart")
         /\ Has(b, "handleLogin") =>
              /\ Has(b, "clickAddToCart")
              /\ First(b, "clickAddToCart") < First(b, "handleLogin")
    /\ (Has(b, "handleSignedInBooking") \/ b.branch = "signedIn") =>
         Has(b, "probe:present")
    /\ (Has(b, "handleLogin") \/ b.branch = "guest") => Has(b, "probe:absent")

\* a guest run that reached the OTP checkpoint
C6_Witness ==
  \E n \in BotIds :
    /\ bots[n].branch = "guest"
    /\ Has(bots[n], "probe:absent")
    /\ Has(bots[n], "handleOTPVerification")

\* ---- C7 ---------------------------------------------------------------------
\* the pending condition turned false at an instant inside the timeout window
ClearedInWindow(w) == w.cleared /\ w.clearedAt < w.maxWaitTime

\* C7: when the wait has ended, it reports completed, with less than
\* timeoutMs accumulated, if the condition turned false at any instant of the
\* window, and it reports timed out, with at least timeoutMs accumulated,
\* only if the condition did not turn false in the window.
C7_CompletedIffClearedInWindow ==
  waiter.pc = "ended" =>
    /\ ClearedInWindow(waiter) =>
         waiter.outcome = "completed" /\ waiter.waitedTime < waiter.maxWaitTime
    /\ waiter.outcome = "timedOut" =>
         /\ waiter.waitedTime >= waiter.maxWaitTime
         /\ ~ClearedInWindow(waiter)

\* ---- C8 ---------------------------------------------------------------------
\* C8: for every policy the accumulated wait never exceeds
\* timeoutMs + pollIntervalMs, and with the default policy (2000, 300000) it
\* never exceeds 300000.
C8_WaitBounded ==
  /\ waiter.waitedTime <= waiter.maxWaitTime + waiter.checkInterval
  /\ (waiter.checkInterval = checkInterval /\ waiter.maxWaitTime = maxWaitTime)
       => waiter.waitedTime <= maxWaitTime

\* a timeout that is no multiple of the interval: the loop overshoots it
C8_Witness ==
  /\ waiter.pc = "ended"
  /\ waiter.outcome = "timedOut"
  /\ waiter.waitedTime > waiter.maxWaitTime

\* ---- C9 ---------------------------------------------------------------------
\* C9: when the wait loop ends, by completion or by timeout, the run is at
\* the OTP submission; the submission is attempted next, and the only
\* failure that follows the wait is the one of the submission itself.
C9_TimeoutNotFatal ==
  \A n \in BotIds :
    LET b == bots[n] IN
    /\ b.wait.pc = "ended" => b.pc = "otp_submit"
    /\ ~Has(b, "throw:otpTimeout")
    /\ \A k \in 1..Len(b.trace) :
         b.trace[k] \in {"otpWait:completed", "otpWait:timedOut"} =>
           /\ k = Len(b.trace) => b.pc = "otp_submit"
           /\ k < Len(b.trace) => b.trace[k + 1] = "otpSubmit:attempt"
           /\ k + 1 < Len(b.trace) =>
                b.trace[k + 2] \in {"otpSubmit:clicked", "throw:otpSubmit"}

\* the wait timed out, the submission was clicked, the login completed
C9_Witness ==
  \E n \in BotIds :
    /\ Has(bots[n], "otpWait:timedOut")
    /\ Has(bots[n], "otpSubmit:clicked")
    /\ bots[n].isLoggedIn

\* ---- C10 --------------------------------------------------------------------
\* the workflow stage an operation belongs to: Init 0, PortalLoaded 1,
\* PopupHandled 2, PassSelected 3, branch 4, CartAdded 5, LoginCompleted 6,
\* PostLoginVehicleResolved 7, CheckoutCompleted 8, Failed / exit 9
Rank(e) ==
  IF e = "initialize" THEN 0
  ELSE IF e = "navigateToPortal" THEN 1
  ELSE IF e \in {"handleInfoPopup", "clickGoToPass"} THEN 2
  ELSE IF e \in {"selectPassType", "clickPassCard"} THEN 3
  ELSE IF e \in {"probe:present", "probe:absent", "handleSignedInBooking",
                 "handleVehicleSelectionForSignedInUser", "fillVehicleForm",
                 "fieldFailed", "saveVehicle", "selectExistingVehicle",
                 "selectDateFromNewPicker", "clickDate"} THEN 4
  ELSE IF e \in {"addToCart", "soldOutSeen", "clickAddToCart"} THEN 5
  ELSE IF e \in {"handleLogin", "typePhone", "clickNext",
                 "handleOTPVerification", "otpWait:completed",
                 "otpWait:timedOut", "otpSubmit:attempt",
                 "otpSubmit:clicked"} THEN 6
  ELSE IF e \in {"handlePostLoginFlow", "handleDropdownVehicleSelection",
                 "selectDropdownVehicle"} THEN 7
  ELSE IF e \in {"completeCheckout", "clickCheckout"} THEN 8
  ELSE 9

\* C10 as stated: the stages of the operations of a run never decrease.
C10_StageMonotone ==
  \A n \in BotIds :
    \A i \in 1..Len(bots[n].trace), j \in 1..Len(bots[n].trace) :
      i < j => Rank(bots[n].trace[i]) <= Rank(bots[n].trace[j])

\* date selection and cart add as repeated by handlePostLoginFlow
RedoOps ==
  {"selectDateFromNewPicker", "clickDate", "addToCart", "soldOutSeen",
   "clickAddToCart"}

\* C10 amended: the stages of the operations of a run never decrease, except
\* that in the guest branch handlePostLoginFlow, after it has resolved the
\* vehicle, runs date selection and cart add once more before checkout; no
\* other operation of an earlier stage runs again.
C10_StageMonotoneButPostLoginRedo ==
  \A n \in BotIds :
    LET b == bots[n] IN
    /\ \A i \in 1..Len(b.trace), j \in 1..Len(b.trace) :
         i < j =>
           \/ Rank(b.trace[i]) <= Rank(b.trace[j])
           \/ /\ b.trace[j] \in RedoOps
              /\ b.branch = "guest"
              /\ Has(b, "selectDropdownVehicle")
              /\ First(b, "selectDropdownVehicle") < j
    /\ Count(b, "selectDateFromNewPicker") <= 2
    /\ Count(b, "addToCart") <= 2
    /\ \A e \in {"initialize", "navigateToPortal", "handleInfoPopup",
                 "selectPassType", "handleSignedInBooking",
                 "handleVehicleSelectionForSignedInUser", "handleLogin",
                 "handleOTPVerification", "handlePostLoginFlow",
                 "handleDropdownVehicleSelection", "completeCheckout"} :
         Count(b, e) <= 1
    /\ b.branch # "guest" =>
         Count(b, "selectDateFromNewPicker") <= 1 /\ Count(b, "addToCart") <= 1

\* a guest run that added to the cart before and after login and succeeded
C10_Witness ==
  \E n \in BotIds :
    /\ bots[n].result = "success"
    /\ Count(bots[n], "clickAddToCart") = 2
    /\ Count(bots[n], "selectDateFromNewPicker") = 2


\* C11: on one bot instance vehicleAdded is false after construction, and no
\* call of a method that touches it (handleVehicleSelectionForSignedInUser
\* with fillVehicleForm, handleDropdownVehicleSelection, addNewVehicle) ever
\* takes it from true back to false; it therefore rises at most once.
C11_VehicleAddedMonotone ==
  /\ [](vbot.pc # "idle" /\ vbot.n = 0 => ~vbot.bot.vehicleAdded)
  /\ [][vbot.pc # "idle" /\ vbot.bot.vehicleAdded => vbot'.bot.vehicleAdded]_vars

\* a call made with the flag already true has returned with the flag true
C11_Witness ==
  /\ vbot.pc = "ready"
  /\ vbot.n >= 2
  /\ vbot.pre.vehicleAdded
  /\ vbot.bot.vehicleAdded

C13_NoBookingWithoutVehicle ==
  \A n \in BotIds :
    LET b == bots[n]
    IN /\ (/\ Has(b, "handleVehicleSelectionForSignedInUser")
            /\ Has(b, "selectDateFromNewPicker"))
           => (Has(b, "saveVehicle") \/ Has(b, "selectExistingVehicle"))
       /\ (/\ Has(b, "handleDropdownVehicleSelection")
            /\ Count(b, "selectDateFromNewPicker") = 2)
           => Has(b, "selectDropdownVehicle")

\* C14: a successful existing-vehicle selection picks the first entry whose
\* text contains the model case-sensitively if there is one; otherwise the
\* first entry containing it case-insensitively; otherwise the first entry
\* whose text is non-empty and is neither "Select..." nor "Add a Vehicle";
\* exactly one entry is selected.
C14_FirstMatchSelected ==
  (vlist.pc = "done" /\ ~vlist.res.thrown) =>
    LET exact == ExactMatches(vlist.entries, vlist.model)
        flexible == FlexibleMatches(vlist.entries, vlist.model)
        available == AvailableVehicles(vlist.entries)
    IN /\ vlist.res.clicks = 1
       /\ vlist.res.selected =
            MinOf(IF exact # {} THEN exact
                  ELSE IF flexible # {} THEN flexible ELSE available)

\* C14 (amended): as C14, except that the last tier of
\* handleDropdownVehicleSelection passes over an entry on which both of its
\* click attempts throw and selects the first acceptable entry whose click
\* succeeds.
C14_FirstClickableSelected ==
  (vlist.pc = "done" /\ ~vlist.res.thrown) =>
    LET exact == ExactMatches(vlist.entries, vlist.model)
        flexible == FlexibleMatches(vlist.entries, vlist.model)
        available == AvailableVehicles(vlist.entries)
        skipping == vlist.method = "handleDropdownVehicleSelection"
    IN /\ vlist.res.clicks = 1
       /\ vlist.res.selected =
            MinOf(IF exact # {} THEN exact
                  ELSE IF flexible # {} THEN flexible
                  ELSE IF skipping THEN available \ vlist.unclickable
                  ELSE available)

\* handleDropdownVehicleSelection reached its last tier, could not click the
\* first acceptable entry and selected the second
C14_Witness ==
  /\ vlist.pc = "done"
  /\ vlist.method = "handleDropdownVehicleSelection"
  /\ ~vlist.res.thrown
  /\ vlist.res.tier = "first"
  /\ 1 \in AvailableVehicles(vlist.entries) \cap vlist.unclickable
  /\ vlist.res.selected = 2

\* the cards whose text contains a literal of the requested pass type
C15_Matching ==
  {i \in 1..Len(cards.passCards) :
     LET t == cards.passCards[i]
     IN \/ /\ cards.passType = "all_day"
           /\ Contains(t, AllDayPass) \/ Contains(t, AllDashDayPass)
        \/ /\ cards.passType = "half_day"
           /\ Contains(t, HalfDayPass) \/ Contains(t, HalfDashDayPass)}

\* C15: a selectPassType call that returns has clicked the first card whose
\* text contains a literal of the requested type, and has clicked the first
\* card as a fallback (no error) only when no card matches.
C15_FirstMatchingCard ==
  (cards.pc = "done" /\ cards.res.thrown = "none") =>
    IF C15_Matching # {}
    THEN cards.res.clicked = MinOf(C15_Matching) /\ ~cards.res.fallback
    ELSE cards.res.clicked = 1 /\ cards.res.fallback

\* C15 (amended): the card clicked is the first matching card whose text
\* could be read and whose click did not throw; the first card is clicked as
\* a fallback exactly when there is no such card, and the call then returns
\* normally.
C15_FirstUsableMatchingCard ==
  (cards.pc = "done" /\ cards.res.thrown = "none") =>
    LET usable == C15_Matching \ (cards.unreadable \cup cards.unclickable)
    IN IF usable # {}
       THEN cards.res.clicked = MinOf(usable) /\ ~cards.res.fallback
       ELSE cards.res.clicked = 1 /\ cards.res.fallback

\* cards ["All Day Pass", "Half-day Pass"] with half_day: the second card
C15_Witness ==
  /\ cards.pc = "done"
  /\ cards.passCards = <<AllDayPass, HalfDashDayPass>>
  /\ cards.passType = "half_day"
  /\ cards.res = [clicked |-> 2, fallback |-> FALSE, thrown |-> "none"]

\* the date buttons the stage works on, their texts as the stage reads them
\* (textContent.trim()), and the text of the active button it finds
C16_Buttons == DateButtons(picker.primary, picker.extra)
C16_Text(i) == Trim(C16_Buttons[i])
C16_ActiveText ==
  IF picker.active = 0 THEN <<"none">> ELSE Trim(picker.primary[picker.active])

\* the target day: the DD component of "MM/DD", a bare 1-2 digit text as it
\* is, and none (the empty text) otherwise
C16_Target ==
  LET d == picker.preferredDate
  IN IF IsMMDD(d) THEN SubSeq(d, 4, 5) ELSE IF IsDay(d) THEN d ELSE <<>>

C16_Equal == {i \in 1..Len(C16_Buttons) : C16_Text(i) = C16_Target}

\* the stage has got past its wait for the picker
C16_Searched == picker.pc = "done" /\ picker.res.thrown # "picker"

\* C16: with a preferredDate "MM/DD" or of 1-2 digits, a date button whose
\* text equals the target day and a target that is not already active, the
\* first such button is clicked and no other date button is.
C16_PreferredButtonClicked ==
  (/\ C16_Searched
   /\ C16_Target # <<>>
   /\ C16_Equal # {}
   /\ C16_ActiveText # C16_Target)
  => picker.res.clicks = <<MinOf(C16_Equal)>>

\* preferredDate "08/17", buttons "18" and "17": the second one is clicked
C16_Witness ==
  /\ picker.pc = "done"
  /\ picker.preferredDate = <<"0", "8", "/", "1", "7">>
  /\ picker.primary = <<<<"1", "8">>, <<"1", "7">>>>
  /\ picker.active = 1
  /\ picker.res.thrown = "none"
  /\ picker.res.clicks = <<2>>

\* C17: when preferredDate is not set, or has neither format, or no date
\* button's text equals the target day, and there is at least one date
\* button, the first available date button is clicked and that is the only
\* date click of the stage.
C17_FirstAvailableClicked ==
  (/\ C16_Searched
   /\ C16_Buttons # <<>>
   /\ \/ picker.preferredDate = <<>>
      \/ ~IsMMDD(picker.preferredDate) /\ ~IsDay(picker.preferredDate)
      \/ C16_Equal = {})
  => picker.res.clicks = <<1>>

\* preferredDate "08/07" (target "07"), buttons "7" and "18": no button text
\* equals the target, the first button is clicked
C17_Witness ==
  /\ picker.pc = "done"
  /\ picker.preferredDate = <<"0", "8", "/", "0", "7">>
  /\ picker.primary = <<<<"7">>, <<"1", "8">>>>
  /\ picker.res.thrown = "none"
  /\ picker.res.dateSelected
  /\ picker.res.clicks = <<1>>

\* C18: when the active date button's text equals the target day the stage
\* clicks no date button, neither the preferred one nor the first available
\* one, and counts the date as selected.
C18_ActiveTargetNoClick ==
  (/\ picker.pc = "done"
   /\ C16_Target # <<>>
   /\ C16_ActiveText = C16_Target)
  => /\ picker.res.clicks = <<>>
     /\ picker.res.thrown = "none" => picker.res.dateSelected /\ ~picker.res.warned

\* the second of two buttons is active and carries the target day, and the
\* stage has returned
C18_Witness ==
  /\ picker.pc = "done"
  /\ picker.preferredDate = <<"1", "7">>
  /\ picker.primary = <<<<"1", "8">>, <<" ", "1", "7", " ">>>>
  /\ picker.active = 2
  /\ picker.res.thrown = "none"
  /\ picker.res.clicks = <<>>

\* C19: when there is no date button at all the stage logs a warning and
\* returns true without throwing and without a click.
C19_NoButtonsReturns ==
  (picker.pc = "done" /\ C16_Buttons = <<>>)
  => picker.res = [clicks |-> <<>>, dateSelected |-> FALSE, thrown |-> "none",
                   warned |-> TRUE]

\* C19 (amended): as C19, provided the picker container
\* "#scheduler_12196 .dateMain" has become visible.
C19_NoButtonsReturnsWhenPickerVisible ==
  (picker.pc = "done" /\ C16_Buttons = <<>> /\ picker.pickerVisible)
  => picker.res = [clicks |-> <<>>, dateSelected |-> FALSE, thrown |-> "none",
                   warned |-> TRUE]

\* a visible picker with no button, a preferred day set, and the stage done
C19_Witness ==
  /\ picker.pc = "done"
  /\ picker.pickerVisible
  /\ picker.primary = <<>>
  /\ picker.extra = <<>>
  /\ picker.preferredDate = <<"1", "7">>
  /\ picker.res.warned

\* C20: clickElement makes at most maxRetries attempts (3 when the argument is
\* omitted) with a delay of 1000 ms between consecutive attempts; it returns
\* true at the first successful attempt, which is its last; after the
\* maxRetries-th failed attempt it throws the error of that attempt; with
\* maxRetries >= 1 it never returns false.
C20_ClickRetries ==
  clicker.pc # "idle" =>
    LET n == Len(clicker.log)
    IN /\ ~clicker.given => clicker.maxRetries = 3
       /\ n <= clicker.maxRetries
       /\ \A i \in 1..(n - 1) : clicker.log[i] # "ok"
       /\ clicker.pc = "done" => clicker.waited = 1000 * (clicker.attempt - 1)
       /\ clicker.result = "true" =>
            clicker.pc = "done" /\ n >= 1 /\ clicker.log[n] = "ok"
       /\ clicker.result = "thrown" =>
            /\ n = clicker.maxRetries
            /\ clicker.log[n] # "ok"
            /\ clicker.error = clicker.log[n]
       /\ clicker.pc = "done" /\ n >= 1 => clicker.attempt = n
       /\ clicker.maxRetries >= 1 => clicker.result # "false"

\* the default three attempts all failed, the last with another error than
\* the first, and that last error was thrown after two delays
C20_Witness ==
  /\ clicker.pc = "done"
  /\ ~clicker.given
  /\ clicker.result = "thrown"
  /\ Len(clicker.log) = 3
  /\ clicker.log[1] # clicker.log[3]
  /\ clicker.error = clicker.log[3]
  /\ clicker.waited = 2000

\* C21: when filling or selecting a vehicle-form field has failed during a
\* registration, the save-vehicle button is not clicked afterwards,
\* vehicleAdded stays false and the run fails.
C21_FieldFailureAbortsRegistration ==
  \A n \in BotIds :
    LET b == bots[n]
    IN Has(b, "fieldFailed") =>
         /\ ~Has(b, "saveVehicle")
         /\ ~b.vehicleAdded
         /\ b.result # "success"

\* C22: whatever happens inside handleInfoPopup (no popup, no button found,
\* a click, a read or a query throwing), it returns true and throws nothing.
C22_PopupBestEffort ==
  (locator.pc = "done" /\ locator.target \in {"popupButton", "noPopup"})
    => locator.res.thrown = "none"

\* the popup is there, its button was found by XPath and by a selector, both
\* clicks threw and the final scan threw as well; the stage has returned
C22_Witness ==
  /\ locator.pc = "done"
  /\ locator.target = "popupButton"
  /\ locator.failure = "scan"
  /\ locator.first = <<"unclickable">>
  /\ Hit("css", 2) \in locator.res.tried
  /\ locator.res.used = Nothing
  /\ locator.res.thrown = "none"

\* the strategies of a resolution in declared order, each with what it yields,
\* and the place of a strategy in that order
LocOrder ==
  IF locator.target = "popupButton"
    THEN locator.first \o locator.strategies \o
         (IF locator.failure = "scan" THEN <<>> ELSE locator.elements)
  ELSE IF locator.target = "phoneInput"
    THEN locator.strategies \o
         (IF locator.failure = "scan" THEN <<>> ELSE locator.elements)
  ELSE locator.strategies

LocPos(h) ==
  IF h.strategy = "xpath" THEN 1
  ELSE IF h.strategy = "css" THEN 1 + h.idx
  ELSE IF h.strategy = "selector" THEN h.idx
  ELSE IF locator.target = "popupButton" THEN 1 + popupSelectors + h.idx
  ELSE phoneSelectors + h.idx

LocResolved ==
  /\ locator.pc = "done"
  /\ locator.target \in {"popupButton", "phoneInput", "otpSubmit"}
  /\ locator.failure # "eval"

\* C23 as stated: when a resolution by ordered strategies returns, the element
\* used is the one of the first strategy that yields a match, and no other
\* strategy is acted upon.
C23_FirstMatchingStrategyUsed ==
  (LocResolved /\ locator.res.thrown = "none"
     /\ \E j \in 1..Len(LocOrder) : LocOrder[j] # "none")
    => /\ locator.res.used # Nothing
       /\ LocOrder[LocPos(locator.res.used)] # "none"
       /\ \A j \in 1..(LocPos(locator.res.used) - 1) : LocOrder[j] = "none"
       /\ locator.res.tried = {locator.res.used}

\* C23 amended: the element used is the one of the first strategy in declared
\* order whose match is acted upon successfully (for the phone input, which
\* is only looked up: the first that yields a match); strategies after it are
\* not acted upon, and matches before it were acted upon and threw.
C23_FirstSuccessfulStrategyUsed ==
  LET good == IF locator.target = "phoneInput" THEN {"match", "unclickable"}
              ELSE {"match"}
  IN LocResolved
       => /\ (\E j \in 1..Len(LocOrder) : LocOrder[j] \in good)
               <=> locator.res.used # Nothing
          /\ locator.res.used # Nothing
               => /\ LocOrder[LocPos(locator.res.used)] \in good
                  /\ \A j \in 1..(LocPos(locator.res.used) - 1) :
                       LocOrder[j] \notin good
                  /\ \A h \in locator.res.tried :
                       LocPos(h) <= LocPos(locator.res.used)

\* the popup button matched by XPath could not be clicked, so the second and
\* the fifth selector, which both match, decide: the second is used
C23_Witness ==
  /\ locator.pc = "done"
  /\ locator.target = "popupButton"
  /\ locator.first = <<"unclickable">>
  /\ locator.strategies[2] = "match"
  /\ locator.strategies[5] = "match"
  /\ locator.res.used = Hit("css", 2)
  /\ Hit("css", 5) \notin locator.res.tried

LocButtonResolved ==
  /\ locator.pc = "done"
  /\ locator.target \in {"nextButton", "otpSubmit"}
  /\ locator.failure = "none"

LocNotFound ==
  locator.res.thrown \in {"Could not find or click Next button",
                          "Could not submit OTP"}

\* C24 as stated: for the login Next button and the OTP submit button the
\* not-found error is raised exactly when no strategy matched any element.
C24_NotFoundIffNoMatch ==
  LocButtonResolved
    => (LocNotFound <=>
          /\ \A i \in 1..Len(locator.strategies) : locator.strategies[i] = "none"
          /\ \A i \in 1..Len(locator.elements) : locator.elements[i] = "none")

\* C24 amended: the not-found error is raised exactly when no strategy
\* yielded an element whose click succeeded, i.e. when every strategy either
\* matched nothing or matched an element whose click threw.
C24_NotFoundIffNoClick ==
  LocButtonResolved
    => /\ LocNotFound <=>
            /\ \A i \in 1..Len(locator.strategies) :
                 locator.strategies[i] # "match"
            /\ \A i \in 1..Len(locator.elements) :
                 locator.elements[i] # "match"
       /\ LocNotFound <=> locator.res.used = Nothing
       /\ locator.res.thrown =
            (IF locator.res.used # Nothing THEN "none"
             ELSE IF locator.target = "nextButton"
               THEN "Could not find or click Next button"
             ELSE "Could not submit OTP")

\* the first submit selector matched a button whose click threw, the others
\* matched nothing: "Could not submit OTP" is raised although a strategy matched
C24_Witness ==
  /\ locator.pc = "done"
  /\ locator.target = "otpSubmit"
  /\ locator.strategies = <<"unclickable", "none", "none", "none">>
  /\ locator.res.thrown = "Could not submit OTP"
  /\ locator.res.tried = {Hit("selector", 1)}

\* C25: a failed run that has a page takes the error-state screenshot after
\* the failure and before the browser is closed; the failure is what the run
\* delivers, and the run is not executed again: each stage of bookParkingPass
\* ran at most once for its trigger, and a returned invocation has no bot.
C25_FailureScreenshotOnce ==
  \A n \in BotIds :
    LET b == bots[n]
        thrown == {k \in 1..Len(b.trace) : b.trace[k] \in ThrowEvents}
        shots == {k \in 1..Len(b.trace) : b.trace[k] = "screenshot:error_state"}
        closes == {k \in 1..Len(b.trace) : b.trace[k] = "browser.close"}
    IN /\ (thrown # {} /\ b.page /\ b.pc \in {"cleanup", "exited"})
            => /\ Cardinality(shots) = 1
               /\ \A k \in thrown, m \in shots : k < m
               /\ \A m \in shots, c \in closes : m < c
               /\ b.result = "failure"
       /\ (thrown # {} /\ b.pc = "exited") => b.result = "failure"
       /\ Cardinality({k \in 1..Len(b.trace) : b.trace[k] = "initialize"}) <= 1
       /\ Cardinality(thrown) <= 1
       /\ (n <= Len(calls) /\ calls[n].status # "running") => b = NoBot

\* the click on the checkout button threw; the screenshot was taken, the
\* browser closed after it, and the run ended as failed
C25_Witness ==
  \E n \in BotIds :
    /\ bots[n].pc = "exited"
    /\ bots[n].page
    /\ bots[n].result = "failure"
    /\ Has(bots[n], "throw:checkoutClick")
    /\ Has(bots[n], "screenshot:error_state")
    /\ bots[n].trace[Len(bots[n].trace)] = "browser.close"

\* C26: a run reports success only if completeCheckout clicked the checkout
\* button; a checkout button that is not visible or whose click throws makes
\* the run fail.
C26_SuccessOnlyAfterCheckoutClick ==
  \A n \in BotIds :
    LET b == bots[n]
        failed == \E k \in 1..Len(b.trace) :
                    b.trace[k] \in {"throw:checkoutNotVisible",
                                    "throw:checkoutClick"}
        clicked == \E k \in 1..Len(b.trace) : b.trace[k] = "clickCheckout"
    IN /\ b.result = "success" => clicked
       /\ failed => /\ ~clicked
                    /\ b.result # "success"
                    /\ b.pc = "exited" => b.result = "failure"
       /\ (b.pc = "exited" /\ ~clicked) => b.result = "failure"

\* a signed-in run whose checkout click succeeded has ended as a success
C26_Witness ==
  \E n \in BotIds :
    /\ bots[n].pc = "exited"
    /\ bots[n].result = "success"
    /\ bots[n].branch = "signedIn"
    /\ Count(bots[n], "clickCheckout") = 1

\* C27: when no phone-number input is found, handleLogin throws before it
\* types anything, before it clicks Next and before the OTP verification
\* starts; the user is not logged in and the run fails.
C27_NoPhoneInputAborts ==
  \A n \in BotIds :
    LET b == bots[n]
    IN (\E k \in 1..Len(b.trace) : b.trace[k] = "throw:noPhoneInput")
         => /\ \A k \in 1..Len(b.trace) :
                 b.trace[k] \notin {"typePhone", "clickNext",
                                    "handleOTPVerification", "otpSubmit:attempt",
                                    "handlePostLoginFlow", "completeCheckout"}
            /\ \A k \in 1..Len(b.trace) : ~(b.trace[k] \in {"otpWait:timedOut", "otpWait:completed"})
            /\ ~b.isLoggedIn
            /\ b.wait = IdleWait
            /\ b.result # "success"
            /\ b.pc \in {"catch_login", "catch", "cleanup", "exited"}
            /\ b.pc = "exited" => b.result = "failure"

\* the login form was there but no phone input: the run ended as failed
\* right after the login_failed and error_state screenshots
C27_Witness ==
  \E n \in BotIds :
    /\ Has(bots[n], "throw:noPhoneInput")
    /\ Has(bots[n], "screenshot:login_failed")
    /\ bots[n].pc = "exited"
    /\ bots[n].result = "failure"

\* positions of a run whose step consists of calls of interaction primitives
\* only (elementExists, takeScreenshot, page.evaluate, delay, browser.close)
PrimitiveOnly ==
  {"probe", "si_probe", "g_loginform", "otp_wait", "catch_login", "catch",
   "cleanup"}

\* C28: on a live bot isLoggedIn changes only where handleLogin sets it
\* after the OTP was submitted, and vehicleAdded only where fillVehicleForm
\* sets it after the save click; both only from false to true.  A step made
\* of primitives only, and a stage step that ends in a primitive failing,
\* leave both flags as they were.
C28_FlagsChangedByStagesOnly ==
  [][\A n \in BotIds :
       (bots[n].pc # "none" /\ bots'[n].pc # "none")
         => /\ bots'[n].isLoggedIn # bots[n].isLoggedIn
                 => /\ bots[n].pc = "otp_submit"
                    /\ bots'[n].isLoggedIn
                    /\ bots'[n].trace[Len(bots'[n].trace)] = "otpSubmit:clicked"
            /\ bots'[n].vehicleAdded # bots[n].vehicleAdded
                 => /\ bots[n].pc = "si_vehicle"
                    /\ bots'[n].vehicleAdded
                    /\ bots'[n].trace[Len(bots'[n].trace)] = "saveVehicle"
            /\ (bots[n].pc \in PrimitiveOnly
                  \/ bots'[n].pc \in {"catch", "catch_login"})
                 => /\ bots'[n].isLoggedIn = bots[n].isLoggedIn
                    /\ bots'[n].vehicleAdded = bots[n].vehicleAdded]_vars

\* a logged-in guest run is in the catch block of bookParkingPass, about to
\* take the error_state screenshot, with its flag still set
C28_Witness ==
  \E n \in BotIds :
    /\ bots[n].pc = "catch"
    /\ bots[n].isLoggedIn
    /\ Has(bots[n], "screenshot:login_failed")

\* C29: a stage ends in the same way, with the same result and the same next
\* stage, whether its screenshot (takeScreenshot, or the inline
\* page.screenshot of date selection) was saved or failed; a failed capture
\* raises nothing.
C29_CaptureKeepsControlFlow ==
  shooter.pc = "done" =>
    LET saved == runStage(shooter.stage, shooter.pre, shooter.inputs, TRUE)
    IN /\ shooter.post.pc = saved.pc
       /\ shooter.post.result = saved.result
       /\ shooter.post.isLoggedIn = saved.isLoggedIn
       /\ \A k \in 1..Len(shooter.post.trace) :
            shooter.post.trace[k] # "throw:screenshot"
       /\ Len(shooter.post.trace) = Len(saved.trace)

\* the checkout click succeeded and the checkout_completed screenshot
\* failed: the stage still ended as a success
C29_Witness ==
  /\ shooter.pc = "done"
  /\ shooter.stage = "completeCheckout"
  /\ ~shooter.shotOk
  /\ shooter.post.result = "success"
  /\ shooter.post.pc = "cleanup"

\* C30: whenever the guard is set it is eventually clear again; it is set
\* exactly while an invocation of runScheduledJob is running its bot, and an
\* invocation only ever ends as returned (never rejected), so every run that
\* was started releases the guard and a trigger that comes after the run
\* ended starts a new run.
C30_GuardReleased ==
  /\ isRunning ~> ~isRunning
  /\ [](isRunning <=> \E n \in 1..Len(calls) : calls[n].status = "running")
  /\ [](\A n \in 1..Len(calls) :
          calls[n].status \in {"running", "skipped", "returned"})

\* a first run failed and was released; the trigger after it started a run
C30_Witness ==
  /\ Len(calls) = 2
  /\ calls[1].status = "returned"
  /\ calls[2].status = "running"
  /\ isRunning
  /\ bots[2].pc # "none"

\* the evaluations made so far fit the policy: the (k+1)-th one is made only
\* with k intervals accumulated and still under the timeout
C31_PollsBounded ==
  /\ waiter.polls >= 1 =>
       (waiter.polls - 1) * waiter.checkInterval < waiter.maxWaitTime
  /\ (waiter.checkInterval = 2000 /\ waiter.maxWaitTime = 300000) =>
       waiter.polls <= 150

\* C31: the wait loop ends, and it evaluates the pending condition at most
\* ceil(timeoutMs / pollIntervalMs) times, 150 times with the default policy,
\* whether or not the condition ever clears.
C31_WaitTerminates == <>(waiter.pc = "ended") /\ []C31_PollsBounded

\* the default wait ran out with the code never entered: 150 evaluations
C31_Witness ==
  /\ waiter.pc = "ended"
  /\ waiter.checkInterval = 2000
  /\ waiter.maxWaitTime = 300000
  /\ ~waiter.cleared
  /\ waiter.polls = 150

\* what a run does in its post-login flow
PostLoginOps ==
  {"handlePostLoginFlow", "screenshot:no_vehicle_selector_found",
   "throw:postLogin", "handleDropdownVehicleSelection",
   "selectDropdownVehicle"}

\* C32: isLoggedIn is true only in a guest run whose OTP submit was clicked;
\* everything of the post-login flow, the second date selection and cart add
\* included, comes after that click with isLoggedIn true; a run of the
\* signed-in branch never has isLoggedIn true.
C32_LoggedInAfterOtp ==
  \A n \in BotIds :
    LET b == bots[n]
        clicks == {k \in 1..Len(b.trace) : b.trace[k] = "otpSubmit:clicked"}
    IN /\ b.isLoggedIn <=> clicks # {}
       /\ b.isLoggedIn => b.branch = "guest"
       /\ b.branch = "signedIn" => ~b.isLoggedIn
       /\ b.pc \in {"pl_probe", "pl_vehicle", "pl_date", "pl_cart"}
            => b.isLoggedIn
       /\ \A k \in 1..Len(b.trace) :
            b.trace[k] \in PostLoginOps
              => b.isLoggedIn /\ \E c \in clicks : c < k
       /\ \A k \in 1..Len(b.trace), m \in 1..Len(b.trace) :
            (k < m /\ b.trace[k] = "handlePostLoginFlow"
               /\ b.trace[m] \in {"selectDateFromNewPicker", "addToCart"})
              => b.isLoggedIn

\* a guest run logged in and went on to its second cart add
C32_Witness ==
  \E n \in BotIds :
    /\ bots[n].isLoggedIn
    /\ bots[n].branch = "guest"
    /\ Has(bots[n], "handlePostLoginFlow")
    /\ Count(bots[n], "addToCart") = 2

\* C33: in a successful run completeCheckout is invoked only after a click
\* on add-to-cart of that run succeeded and after the vehicle resolution of
\* the run's branch was invoked and returned (handleVehicleSelectionForSignedInUser
\* in the signed-in branch, handleDropdownVehicleSelection after login).
C33_CheckoutAfterCartAndVehicle ==
  \A n \in BotIds :
    LET b == bots[n]
        before(e) == \E k \in 1..Len(b.trace), m \in 1..Len(b.trace) :
                       /\ k < m
                       /\ b.trace[k] = e
                       /\ b.trace[m] = "completeCheckout"
    IN b.result = "success"
         => /\ before("clickAddToCart")
            /\ b.branch = "signedIn"
                 => before("handleVehicleSelectionForSignedInUser")
            /\ b.branch = "guest"
                 => before("handleDropdownVehicleSelection")
                      /\ before("selectDropdownVehicle")

\* C34: in a guest run whose login form is not there after the first cart
\* add, the run throws at once and fails: handleLogin, the OTP verification,
\* the post-login flow and completeCheckout are never invoked and nothing
\* but the failure handling follows.
C34_NoLoginFormAborts ==
  \A n \in BotIds :
    LET b == bots[n]
    IN \A k \in 1..Len(b.trace) :
         b.trace[k] = "screenshot:no_login_form"
           => /\ b.branch = "guest"
              /\ Cardinality({m \in 1..(k - 1) :
                                b.trace[m] = "clickAddToCart"}) = 1
              /\ k < Len(b.trace) /\ b.trace[k + 1] = "throw:noLoginForm"
              /\ \A m \in 1..Len(b.trace) :
                   b.trace[m] \notin {"handleLogin", "handleOTPVerification",
                                      "handlePostLoginFlow",
                                      "handleDropdownVehicleSelection",
                                      "completeCheckout", "clickCheckout"}
              /\ \A m \in (k + 2)..Len(b.trace) :
                   b.trace[m] \in {"screenshot:error_state", "cleanup",
                                   "browser.close"}
              /\ ~b.isLoggedIn
              /\ b.result # "success"
              /\ b.pc = "exited" => b.result = "failure"

\* the cart add succeeded, no login form appeared, the run ended as failed
C34_Witness ==
  \E n \in BotIds :
    /\ Has(bots[n], "clickAddToCart")
    /\ Has(bots[n], "throw:noLoginForm")
    /\ bots[n].pc = "exited"
    /\ bots[n].result = "failure"

\* C35: when the post-login page shows neither the vehicle selector nor one
\* of its alternatives, handlePostLoginFlow throws and the run fails: after
\* the login no vehicle is selected, no date is selected, nothing is added to
\* the cart and checkout is not invoked.
C35_NoSelectorAfterLoginAborts ==
  \A n \in BotIds :
    LET b == bots[n]
    IN \A k \in 1..Len(b.trace) :
         b.trace[k] = "screenshot:no_vehicle_selector_found"
           => /\ k > 1 /\ b.trace[k - 1] = "handlePostLoginFlow"
              /\ k < Len(b.trace) /\ b.trace[k + 1] = "throw:postLogin"
              /\ \A m \in (k + 2)..Len(b.trace) :
                   b.trace[m] \in {"screenshot:login_failed",
                                   "screenshot:error_state", "cleanup",
                                   "browser.close"}
              /\ \A m \in 1..Len(b.trace) :
                   b.trace[m] \notin {"handleDropdownVehicleSelection",
                                      "selectDropdownVehicle",
                                      "completeCheckout", "clickCheckout"}
              /\ Cardinality({m \in 1..Len(b.trace) :
                                b.trace[m] = "selectDateFromNewPicker"}) = 1
              /\ Cardinality({m \in 1..Len(b.trace) :
                                b.trace[m] = "addToCart"}) = 1
              /\ b.result # "success"
              /\ b.pc = "exited" => b.result = "failure"

\* logged in, no selector on the page that followed: the run ended as failed
C35_Witness ==
  \E n \in BotIds :
    /\ bots[n].isLoggedIn
    /\ Has(bots[n], "throw:postLogin")
    /\ bots[n].pc = "exited"
    /\ bots[n].result = "failure"

\* C36: with no pass card rendered selectPassType throws "No pass cards
\* found" without a click; with at least one card rendered at most one card
\* click succeeds in the stage, and the stage returns exactly when one did.
C36_AtMostOneCardClick ==
  cards.pc = "done" =>
    /\ Len(cards.passCards) = 0 =>
         /\ cards.res.thrown = "No pass cards found"
         /\ cards.clicks = <<>>
    /\ Len(cards.passCards) > 0 =>
         /\ Len(cards.clicks) <= 1
         /\ cards.res.thrown # "No pass cards found"
         /\ cards.res.thrown = "none" <=> Len(cards.clicks) = 1
         /\ cards.res.thrown = "none" => cards.clicks = <<cards.res.clicked>>

\* two cards that both match the requested type: only the first is clicked
C36_Witness ==
  /\ cards.pc = "done"
  /\ cards.passCards = <<AllDayPass, AllDashDayPass>>
  /\ cards.passType = "all_day"
  /\ cards.unreadable = {}
  /\ cards.unclickable = {}
  /\ cards.clicks = <<1>>

\* C37: scheduleJob with an expression that cron.validate rejects returns
\* false and leaves scheduledJobs as it was, entry for entry, and stops no
\* job, also when a job of the same name is scheduled.
C37_InvalidCronRejected ==
  [][(registry'.op = "scheduleJob" /\ ~registry'.valid) =>
       /\ ~registry'.ret
       /\ registry'.scheduledJobs = registry.scheduledJobs
       /\ registry'.tasks = registry.tasks
       /\ registry'.log = registry.log]_vars

\* an invalid expression under the name of a job that is scheduled and running
C37_Witness ==
  /\ registry.pc = "ready"
  /\ registry.op = "scheduleJob"
  /\ ~registry.valid
  /\ ~registry.ret
  /\ \E i \in 1..Len(registry.scheduledJobs) :
       /\ registry.scheduledJobs[i].name = registry.jobName
       /\ registry.tasks[registry.scheduledJobs[i].job].state = "started"

C38_Registry ==
  LET m == registry.scheduledJobs
      t == registry.tasks
      log == registry.log
  IN /\ \A i, j \in 1..Len(m) : m[i].name = m[j].name => i = j
     /\ \A j \in 1..Len(t) :
          t[j].state = "started" <=>
            \E i \in 1..Len(m) : m[i].job = j /\ m[i].name = t[j].name
     /\ \A k \in 1..Len(log) :
          log[k].ev = "start" =>
            \A j \in 1..(log[k].job - 1) :
              t[j].name = t[log[k].job].name =>
                \E h \in 1..(k - 1) : log[h] = [ev |-> "stop", job |-> j]
     /\ registry.op = "stopAllJobs" => (m = <<>> /\ registry.ret)

C38_Call ==
  LET known == \E i \in 1..Len(registry.scheduledJobs) :
                 registry.scheduledJobs[i].name = registry'.jobName
  IN /\ (registry'.op = "stopJob" /\ ~known) =>
          /\ ~registry'.ret
          /\ registry'.scheduledJobs = registry.scheduledJobs
          /\ registry'.tasks = registry.tasks
          /\ registry'.log = registry.log
     /\ (registry'.op = "stopJob" /\ known) =>
          /\ registry'.ret
          /\ Len(registry'.scheduledJobs) = Len(registry.scheduledJobs) - 1
     /\ (registry'.op = "scheduleJob" /\ registry'.valid) =>
          /\ registry'.ret
          /\ Len(registry'.tasks) = Len(registry.tasks) + 1
          /\ \E i \in 1..Len(registry'.scheduledJobs) :
               /\ registry'.scheduledJobs[i].name = registry'.jobName
               /\ registry'.scheduledJobs[i].job = Len(registry'.tasks)

====
